---- MODULE Spec2Model ----
(***************************************************************************)
(* A model of backend/analytics.py of cash-compass: the heuristic          *)
(* subscription / gray-charge scoring engine of FinancialAnalytics and the *)
(* ledger (self.df) it works on.                                           *)
(*                                                                         *)
(* Numbers.  Floats are modelled exactly: a value is a record              *)
(*   [k |-> "num",  n, d]   the rational n/d (d > 0, lowest terms)         *)
(*   [k |-> "sqrt", n, d]   the square root of the rational n/d (> 0)      *)
(*   [k |-> "NaN"]/["None"] the float nan / the Python None                *)
(* so that every threshold comparison of the code is decided exactly.      *)
(* Floating point rounding is outside the model.                           *)
(*                                                                         *)
(* Strings that the code inspects (merchant, category, notes) are tuples   *)
(* of one-character strings.                                               *)
(***************************************************************************)
EXTENDS Integers, Sequences, FiniteSets, TLC

VARIABLES
    source,             \* the rows of the CSV file at settings.DATA_PATH
    df,                 \* self.df
    loaded,             \* history: the value load_data last gave self.df
    result,             \* the return value (or exception) of the last call
    row,                \* a merchant feature vector (a row of merchant_df)
    avg_monthly_spend,  \* the baseline handed to compute_gray_score
    ret,                \* what the scorer functions returned for row
    load_pc,            \* the statement a running load_data() executes next
    run_pc,             \* the statement a running run_heuristic_scoring() executes next
    run_merchant_df,    \* the local merchant_df of the running run_heuristic_scoring()
    reads,              \* history: the reads of self.df made by the running call
    version             \* history: how often load_data has assigned self.df

threads == <<load_pc, run_pc, run_merchant_df, reads, version>>

vars == <<source, df, loaded, result, row, avg_monthly_spend, ret, threads>>

-----------------------------------------------------------------------------
(* Bounds of the model *)

\* the longest CSV file (number of transactions)
MaxLen == 3

\* the largest num_txns of a feature vector handed directly to the scorers
MaxTxns == 7

\* the longest file refreshed while a scoring run is under way
MaxConcLen == 2

\* the most refreshes of the ledger in one behaviour
MaxRefreshes == 2

\* the longest merchant name spelled from NameChars
MaxNameLen == 4

\* the largest subscription score, of either sign, handed to compute_label
MaxScore == 9

\* the most transactions of the one category handed to _detect_anomalies
MaxAmounts == 6

-----------------------------------------------------------------------------
(* Exact arithmetic *)

Abs(x) == IF x < 0 THEN -x ELSE x

RECURSIVE GCD(_, _)
GCD(a, b) == IF b = 0 THEN a ELSE GCD(b, a % b)

Norm(kind, n, d) ==
    LET g == GCD(Abs(n), Abs(d))
        s == IF d < 0 THEN -1 ELSE 1
    IN  [k |-> kind, n |-> (s * n) \div g, d |-> (s * d) \div g]

\* the float n/d
Num(n, d) == Norm("num", n, d)

\* the float sqrt(n/d), n/d >= 0; sqrt(0) is the float 0.0
Sqrt(n, d) == IF n = 0 THEN Num(0, 1) ELSE Norm("sqrt", n, d)

None == [k |-> "None", n |-> 0, d |-> 1]

NaN == [k |-> "NaN", n |-> 0, d |-> 1]

\* x <= y on floats; any comparison with nan is False
LE(x, y) ==
    CASE x.k = "NaN" \/ y.k = "NaN" -> FALSE
      [] x.k = "num" /\ y.k = "num" -> x.n * y.d <= y.n * x.d
      [] x.k = "sqrt" /\ y.k = "num" ->
            y.n >= 0 /\ x.n * y.d * y.d <= y.n * y.n * x.d
      [] x.k = "num" /\ y.k = "sqrt" ->
            x.n <= 0 \/ x.n * x.n * y.d <= y.n * x.d * x.d
      [] OTHER -> x.n * y.d <= y.n * x.d

\* x < y on floats
LT(x, y) == x.k # "NaN" /\ y.k # "NaN" /\ ~LE(y, x)

\* x / y for a rational x and a rational y # 0
Div(x, y) == Num(x.n * y.d, x.d * y.n)

\* np.isnan
IsNan(x) == x.k = "NaN"

RECURSIVE SumSeq(_)
SumSeq(s) == IF s = <<>> THEN 0 ELSE Head(s) + SumSeq(Tail(s))

Squares(s) == [i \in 1..Len(s) |-> s[i] * s[i]]

\* np.mean of a non-empty sequence of integers
Mean(s) == Num(SumSeq(s), Len(s))

\* np.std (population, divisor n) of a non-empty sequence of integers
PopStd(s) ==
    LET n == Len(s)
        S == SumSeq(s)
    IN  Sqrt(n * SumSeq(Squares(s)) - S * S, n * n)

-----------------------------------------------------------------------------
(* Characters and strings *)

Ascii ==
    << " ", "#", "'", "-",
       "0", "1", "2", "3", "4", "5", "6", "7", "8", "9",
       "A", "B", "C", "D", "E", "F", "G", "H", "I", "J", "K", "L", "M",
       "N", "O", "P", "Q", "R", "S", "T", "U", "V", "W", "X", "Y", "Z",
       "a", "b", "c", "d", "e", "f", "g", "h", "i", "j", "k", "l", "m",
       "n", "o", "p", "q", "r", "s", "t", "u", "v", "w", "x", "y", "z" >>

\* the code point order of the characters
Ord == [c \in {Ascii[i] : i \in 1..Len(Ascii)} |->
            CHOOSE i \in 1..Len(Ascii) : Ascii[i] = c]

\* the lower-case letter of each upper-case letter
ToLower == [c \in {Ascii[i] : i \in Ord["A"]..Ord["Z"]} |-> Ascii[Ord[c] + 26]]

LowerChar(c) == IF c \in DOMAIN ToLower THEN ToLower[c] ELSE c

\* str.lower
Lower(s) == [i \in 1..Len(s) |-> LowerChar(s[i])]

\* str.strip: leading and trailing whitespace removed
RECURSIVE LStrip(_)
LStrip(s) == IF s # <<>> /\ Head(s) = " " THEN LStrip(Tail(s)) ELSE s

RECURSIVE RStrip(_)
RStrip(s) ==
    IF s # <<>> /\ s[Len(s)] = " " THEN RStrip(SubSeq(s, 1, Len(s) - 1)) ELSE s

Strip(s) == RStrip(LStrip(s))

\* str.replace(old, new) for a one-character old and a string new
RECURSIVE Replace(_, _, _)
Replace(s, old, new) ==
    IF s = <<>> THEN <<>>
    ELSE (IF Head(s) = old THEN new ELSE <<Head(s)>>) \o Replace(Tail(s), old, new)

\* sub in s
Contains(sub, s) ==
    \E i \in 1..(Len(s) - Len(sub) + 1) : SubSeq(s, i, i + Len(sub) - 1) = sub

\* s < t in the order of Python strings
RECURSIVE StrLess(_, _)
StrLess(s, t) ==
    IF t = <<>> THEN FALSE
    ELSE IF s = <<>> THEN TRUE
    ELSE IF Head(s) = Head(t) THEN StrLess(Tail(s), Tail(t))
    ELSE Ord[Head(s)] < Ord[Head(t)]

-----------------------------------------------------------------------------
(* The scoring constants, analytics.py lines 15-49 *)

SUB_MIN_TXNS == 3

SUB_MONTHLY_INTERVAL_RANGE == <<Num(27, 1), Num(33, 1)>>

\* a weekly band that reaches into the monthly one
OverlappingWeeklyRange == <<Num(6, 1), Num(30, 1)>>

SUB_WEEKLY_INTERVAL_RANGE == <<Num(6, 1), Num(8, 1)>>

SUB_STD_INTERVAL_THRESHOLD == Num(3, 1)

SUB_AMOUNT_CV_THRESHOLD == Num(5, 100)

SUB_AMOUNT_RANGE == <<Num(5, 1), Num(50, 1)>>

SUB_MICRO_AMOUNT_THRESHOLD == Num(5, 1)

SUB_ACTIVE_DAYS_THRESHOLD == 90

SUB_PRICE_INCREASE_RANGE == <<Num(5, 100), Num(20, 100)>>

SUB_CATEGORIES ==
    { <<"e", "n", "t", "e", "r", "t", "a", "i", "n", "m", "e", "n", "t">>,
      <<"s", "o", "f", "t", "w", "a", "r", "e">>,
      <<"f", "i", "t", "n", "e", "s", "s">>,
      <<"s", "e", "r", "v", "i", "c", "e", "s">>,
      <<"e", "d", "u", "c", "a", "t", "i", "o", "n">>,
      <<"s", "u", "b", "s", "c", "r", "i", "p", "t", "i", "o", "n">> }

SUB_LIKELY_THRESHOLD == 8

SUB_POSSIBLE_THRESHOLD == 4

GRAY_MICRO_AMOUNT_THRESHOLD == Num(5, 1)

GRAY_SPEND_RATIO_RANGE == <<Num(1, 1000), Num(2, 100)>>

GRAY_INTERVAL_RANGE == <<Num(25, 1), Num(45, 1)>>

GRAY_HIGH_FREQ_TXNS == 6

GRAY_HIGH_FREQ_AMOUNT == Num(3, 1)

GRAY_LONG_ACTIVE_DAYS == 180

GRAY_LONG_ACTIVE_AMOUNT == Num(10, 1)

GRAY_TAG_THRESHOLD == 5

GRAY_POSSIBLY_TAG_THRESHOLD == 3

KNOWN_BRANDS ==
    { <<"n", "e", "t", "f", "l", "i", "x">>,
      <<"s", "p", "o", "t", "i", "f", "y">>,
      <<"a", "m", "a", "z", "o", "n">>,
      <<"a", "d", "o", "b", "e">>,
      <<"s", "a", "f", "e", "w", "a", "y">>,
      <<"s", "t", "a", "r", "b", "u", "c", "k", "s">>,
      <<"p", "l", "a", "n", "e", "t", "f", "i", "t", "n", "e", "s", "s">>,
      <<"a", "p", "p", "l", "e">>,
      <<"g", "o", "o", "g", "l", "e">>,
      <<"m", "i", "c", "r", "o", "s", "o", "f", "t">>,
      <<"w", "a", "l", "m", "a", "r", "t">>,
      <<"t", "a", "r", "g", "e", "t">>,
      <<"c", "o", "s", "t", "c", "o">>,
      <<"h", "u", "l", "u">>,
      <<"d", "i", "s", "n", "e", "y">>,
      <<"h", "b", "o">>,
      <<"g", "y", "m", " ", "m", "e", "m", "b", "e", "r", "s", "h", "i", "p">>,
      <<"t", "r", "a", "d", "e", "r", " ", "j", "o", "e">> }

\* normalize_merchant: lower(), strip(), "'" replaced by "", "-" replaced by " "
normalize_merchant(merchant) ==
    Replace(Replace(Strip(Lower(merchant)), "'", <<>>), "-", <<" ">>)

\* is_known_brand: some brand of the allowlist is a substring of merchant_norm
is_known_brand(merchant_norm) ==
    \E brand \in KNOWN_BRANDS : Contains(brand, merchant_norm)

-----------------------------------------------------------------------------
(* Dates.  All dates of the model lie in the year 2024; a Timestamp is the  *)
(* day of that year, a date string of the CSV or of an output is [m, d].    *)

DaysBefore == <<0, 31, 60, 91, 121, 152, 182, 213, 244, 274, 305, 335, 366>>

\* pd.to_datetime of a "2024-mm-dd" string
ToDatetime(s) == DaysBefore[s.m] + s.d

\* .dt.to_period('M'): the calendar month of a Timestamp
ToPeriodM(t) == CHOOSE m \in 1..12 : DaysBefore[m] < t /\ t <= DaysBefore[m + 1]

\* Timestamp.strftime('%Y-%m-%d')
Strftime(t) == LET mo == ToPeriodM(t) IN [m |-> mo, d |-> t - DaysBefore[mo]]

-----------------------------------------------------------------------------
(* The data source: the rows a CSV file may hold *)

NETFLIX == <<"N", "e", "t", "f", "l", "i", "x">>

QUICKFEE == <<"Q", "u", "i", "c", "k", "F", "e", "e">>

SOFTWARE == <<"S", "o", "f", "t", "w", "a", "r", "e">>

MISC == <<"M", "i", "s", "c">>

NO_NOTES == <<>>

ANOMALY_NOTE == <<"A", "N", "O", "M", "A", "L", "Y">>

CsvRow(mo, day, merchant, category, amount, type, notes) ==
    [date |-> [m |-> mo, d |-> day], merchant |-> merchant, category |-> category,
     amount |-> amount, type |-> type, notes |-> notes]

\* a monthly charge, a second charge of the same day with another amount and
\* category, a refund by the same merchant, a small fee of an unknown
\* merchant and, a week before it, a charge of nothing by that merchant
CsvRows ==
    { CsvRow(1, 3, QUICKFEE, MISC, 0, "debit", NO_NOTES),
      CsvRow(1, 10, NETFLIX, SOFTWARE, 10, "debit", NO_NOTES),
      CsvRow(2, 9, NETFLIX, SOFTWARE, 10, "debit", NO_NOTES),
      CsvRow(1, 10, NETFLIX, MISC, 12, "debit", NO_NOTES),
      CsvRow(2, 9, NETFLIX, SOFTWARE, 10, "credit", NO_NOTES),
      CsvRow(1, 10, QUICKFEE, MISC, 2, "debit", ANOMALY_NOTE) }

\* the files: every sequence of at most MaxLen rows
CsvFiles == UNION { [1..n -> CsvRows] : n \in 0..MaxLen }

-----------------------------------------------------------------------------
(* The ledger, self.df: its columns and its rows in order *)

\* the columns of the file
CsvColumns == {"date", "merchant", "category", "amount", "type", "notes"}

\* pd.DataFrame(): no columns, no rows
EmptyDataFrame == [cols |-> {}, datetime |-> FALSE, rows |-> <<>>]

\* DataFrame.empty
Empty(d) == d.cols = {} \/ d.rows = <<>>

\* the float nan that read_csv puts in an empty cell (no string has a
\* character of three letters)
NAN_CELL == <<"nan">>

\* line 73, pd.read_csv: the dates are still strings (datetime is FALSE),
\* there is no month column, an empty notes cell holds nan
read_csv(file) ==
    [cols |-> CsvColumns,
     datetime |-> FALSE,
     rows |-> [i \in 1..Len(file) |->
                 [date |-> file[i].date,
                  merchant |-> file[i].merchant,
                  category |-> file[i].category,
                  amount |-> file[i].amount,
                  type |-> file[i].type,
                  notes |-> IF file[i].notes = NO_NOTES THEN NAN_CELL
                            ELSE file[i].notes]]]

\* line 74: self.df['date'] = pd.to_datetime(self.df['date'])
ParseDates(d) ==
    [cols |-> d.cols,
     datetime |-> TRUE,
     rows |-> [i \in 1..Len(d.rows) |->
                 [d.rows[i] EXCEPT !.date = ToDatetime(d.rows[i].date)]]]

\* line 75: self.df['month'] = self.df['date'].dt.to_period('M')
AddMonth(d) ==
    [cols |-> d.cols \cup {"month"},
     datetime |-> d.datetime,
     rows |-> [i \in 1..Len(d.rows) |->
                 [date |-> d.rows[i].date,
                  merchant |-> d.rows[i].merchant,
                  category |-> d.rows[i].category,
                  amount |-> d.rows[i].amount,
                  type |-> d.rows[i].type,
                  notes |-> d.rows[i].notes,
                  month |-> ToPeriodM(d.rows[i].date)]]]

\* lines 78-80: the notes column exists; fillna('')
FillNotes(d) ==
    [cols |-> d.cols,
     datetime |-> d.datetime,
     rows |-> [i \in 1..Len(d.rows) |->
                 [d.rows[i] EXCEPT !.notes = IF d.rows[i].notes = NAN_CELL
                                             THEN NO_NOTES ELSE d.rows[i].notes]]]

\* load_data, lines 72-83, run from its first statement to its last: the
\* file read, dates parsed, the month column added, the notes filled (the
\* amounts are numbers already, line 76 changes nothing); any failure
\* leaves the empty DataFrame
load_data(file, ok) ==
    IF ~ok THEN EmptyDataFrame
    ELSE FillNotes(AddMonth(ParseDates(read_csv(file))))

IsDebit(r) == r.type = "debit"

\* the ledger without the debit filter
AllRows(d) == d.rows

\* self.df[self.df['type'] == 'debit']
ExpenseRows(d) == SelectSeq(d.rows, IsDebit)

\* the rows of s with the given merchant, in order
RECURSIVE OfMerchant(_, _)
OfMerchant(s, merchant) ==
    IF s = <<>> THEN <<>>
    ELSE (IF Head(s).merchant = merchant THEN <<Head(s)>> ELSE <<>>)
            \o OfMerchant(Tail(s), merchant)

\* Series.unique(): the distinct values in order of first appearance
RECURSIVE Unique(_)
Unique(s) ==
    IF s = <<>> THEN <<>>
    ELSE LET init == Unique(SubSeq(s, 1, Len(s) - 1))
         IN  IF \E i \in 1..Len(init) : init[i] = s[Len(s)]
             THEN init ELSE Append(init, s[Len(s)])

Column(s, name) == [i \in 1..Len(s) |-> s[i][name]]

\* sort_values('date') with the default kind 'quicksort', which is not
\* stable: every ordering of the rows by date, rows of one date in any order
SortValues(s) ==
    { t \in { [i \in 1..Len(s) |-> s[p[i]]] : p \in Permutations(1..Len(s)) } :
        \A i \in 1..(Len(t) - 1) : t[i].date <= t[i + 1].date }

-----------------------------------------------------------------------------
(* compute_merchant_features, lines 264-324 *)

\* x / y for a float x >= 0 and a rational y > 0
DivF(x, y) ==
    IF x.k = "sqrt" THEN Sqrt(x.n * y.d * y.d, x.d * y.n * y.n)
    ELSE Num(x.n * y.d, x.d * y.n)

\* the days of each later date since the first one
DiffFromFirst(dates) == [i \in 1..(Len(dates) - 1) |-> dates[i + 1] - dates[1]]

\* np.diff(dates) in days
Diff(dates) == [i \in 1..(Len(dates) - 1) |-> dates[i + 1] - dates[i]]

Count(s, v) == Cardinality({i \in 1..Len(s) : s[i] = v})

\* Series.mode().iloc[0]: mode() returns the most frequent values sorted
\* ascending, so the first one is the smallest of them
Mode(s) ==
    LET vals == {s[i] : i \in 1..Len(s)}
        modes == {v \in vals : \A w \in vals : Count(s, w) <= Count(s, v)}
    IN  CHOOSE v \in modes : \A w \in modes \ {v} : StrLess(v, w)

\* lines 278-322: the feature dict of one merchant from m_df, its debit rows
\* sorted by date
MerchantFeatureDict(merchant, m_df) ==
    LET num_txns == Len(m_df)
        amounts == Column(m_df, "amount")
        dates == Column(m_df, "date")
        intervals == Diff(dates)
        amount_mean == Mean(amounts)
        amount_std == PopStd(amounts)
        first_amount == amounts[1]
        last_amount == amounts[num_txns]
    IN  [merchant |-> merchant,
         merchant_norm |-> normalize_merchant(merchant),
         num_txns |-> num_txns,
         mean_interval_days |-> IF num_txns >= 2 THEN Mean(intervals) ELSE None,
         std_interval_days |->
             IF num_txns >= 2
             THEN (IF Len(intervals) > 1 THEN PopStd(intervals) ELSE Num(0, 1))
             ELSE None,
         amount_mean |-> amount_mean,
         amount_std |-> amount_std,
         amount_cv |->
             IF LT(Num(0, 1), amount_mean) THEN DivF(amount_std, amount_mean)
             ELSE None,
         active_days |-> IF num_txns >= 2 THEN dates[num_txns] - dates[1] ELSE 0,
         price_increase_pct |->
             IF first_amount > 0 /\ num_txns >= 2
             THEN Num(last_amount - first_amount, first_amount)
             ELSE None,
         category |-> Mode(Column(m_df, "category"))]

\* lines 275-276: for each merchant, a sorting of its rows of expense_df
MerchantFrames(expense_df, merchants) ==
    LET frames == [i \in 1..Len(merchants) |->
                      SortValues(OfMerchant(expense_df, merchants[i]))]
    IN  { pick \in [1..Len(merchants) -> UNION {frames[i] : i \in 1..Len(merchants)}] :
            \A i \in 1..Len(merchants) : pick[i] \in frames[i] }

\* lines 272-322: the list merchant_features built from the sorted expense_df
FeatureLists(expense_df) ==
    LET merchants == Unique(Column(expense_df, "merchant"))
    IN  { [i \in 1..Len(merchants) |-> MerchantFeatureDict(merchants[i], pick[i])] :
            pick \in MerchantFrames(expense_df, merchants) }

\* lines 269-324, behind the emptiness check: the lists of feature dicts for
\* each way expense_df may come out of its sort
ExtractFeatures(d) ==
    UNION { FeatureLists(expense_df) : expense_df \in SortValues(ExpenseRows(d)) }

\* compute_merchant_features: the lists of feature dicts it may return for
\* the ledger d, one for each way the two unstable sorts may order the rows
\* of one date (<<>> is the empty DataFrame)
compute_merchant_features(d) ==
    IF Empty(d) THEN {<<>>} ELSE ExtractFeatures(d)

\* a frame whose missing values are filled with 0
DataFrameFillZero(merchant_features) ==
    LET fill(v) == IF v = None THEN Num(0, 1) ELSE v
    IN  [i \in 1..Len(merchant_features) |->
            [merchant_features[i] EXCEPT
                !.mean_interval_days = fill(@),
                !.std_interval_days = fill(@),
                !.amount_cv = fill(@),
                !.price_increase_pct = fill(@)]]

\* pd.DataFrame(merchant_features): a column that holds None beside floats
\* becomes a float column with nan for None; a column of None only keeps None
DataFrame(merchant_features) ==
    LET cast(name, v) ==
            IF v = None /\ \E j \in 1..Len(merchant_features) :
                              merchant_features[j][name] # None
            THEN NaN ELSE v
    IN  [i \in 1..Len(merchant_features) |->
            [merchant_features[i] EXCEPT
                !.mean_interval_days = cast("mean_interval_days", @),
                !.std_interval_days = cast("std_interval_days", @),
                !.amount_cv = cast("amount_cv", @),
                !.price_increase_pct = cast("price_increase_pct", @)]]

-----------------------------------------------------------------------------
(* The scorers, lines 326-443 *)

\* lo < x < hi, both bounds excluded
InRangeExclusive(r, x) == LT(r[1], x) /\ LT(x, r[2])

\* lo <= x <= hi for a range constant r = (lo, hi)
InRange(r, x) == LE(r[1], x) /\ LE(x, r[2])

\* compute_subscription_score, lines 326-375: score, from 0, after each rule
compute_subscription_score(r) ==
    LET s1 == 0 + (IF r.num_txns >= SUB_MIN_TXNS THEN 2 ELSE 0)
        s2 == s1 + (IF r.mean_interval_days # None
                 /\ InRange(SUB_MONTHLY_INTERVAL_RANGE, r.mean_interval_days)
              THEN 3 ELSE 0)
        s3 == s2 + (IF r.mean_interval_days # None
                 /\ InRange(SUB_WEEKLY_INTERVAL_RANGE, r.mean_interval_days)
              THEN 3 ELSE 0)
        s4 == s3 + (IF r.std_interval_days # None /\ ~IsNan(r.std_interval_days)
                 /\ LE(r.std_interval_days, SUB_STD_INTERVAL_THRESHOLD)
              THEN 1 ELSE 0)
        s5 == s4 + (IF r.amount_cv # None /\ ~IsNan(r.amount_cv)
                 /\ LE(r.amount_cv, SUB_AMOUNT_CV_THRESHOLD)
              THEN 2 ELSE 0)
        s6 == s5 + (IF InRange(SUB_AMOUNT_RANGE, r.amount_mean) THEN 1 ELSE 0)
        s7 == s6 + (IF LT(r.amount_mean, SUB_MICRO_AMOUNT_THRESHOLD) THEN 1 ELSE 0)
        s8 == s7 + (IF Lower(r.category) \in SUB_CATEGORIES THEN 1 ELSE 0)
        s9 == s8 + (IF r.active_days >= SUB_ACTIVE_DAYS_THRESHOLD
                 /\ r.num_txns >= SUB_MIN_TXNS
              THEN 1 ELSE 0)
        s10 == s9 + (IF r.price_increase_pct # None /\ ~IsNan(r.price_increase_pct)
                  /\ InRange(SUB_PRICE_INCREASE_RANGE, r.price_increase_pct)
               THEN 1 ELSE 0)
    IN  s10

\* the gray score without the interval-and-micro-amount rule
GrayScoreWithoutStacking(r, spend) ==
    LET g1 == 0 + (IF LT(r.amount_mean, GRAY_MICRO_AMOUNT_THRESHOLD) THEN 2 ELSE 0)
        g2 == g1 + (IF LT(Num(0, 1), spend)
                 /\ InRange(GRAY_SPEND_RATIO_RANGE, Div(r.amount_mean, spend))
              THEN 1 ELSE 0)
        g3 == g2 + (IF ~is_known_brand(r.merchant_norm) THEN 2 ELSE 0)
        g5 == g3 + (IF r.num_txns >= GRAY_HIGH_FREQ_TXNS
                 /\ LT(r.amount_mean, GRAY_HIGH_FREQ_AMOUNT)
              THEN 2 ELSE 0)
        g6 == g5 + (IF r.active_days > GRAY_LONG_ACTIVE_DAYS
                 /\ LT(r.amount_mean, GRAY_LONG_ACTIVE_AMOUNT)
              THEN 1 ELSE 0)
    IN  g6

\* compute_gray_score, lines 377-409
compute_gray_score(r, spend) ==
    LET g1 == 0 + (IF LT(r.amount_mean, GRAY_MICRO_AMOUNT_THRESHOLD) THEN 2 ELSE 0)
        g2 == g1 + (IF LT(Num(0, 1), spend)
                 /\ InRange(GRAY_SPEND_RATIO_RANGE, Div(r.amount_mean, spend))
              THEN 1 ELSE 0)
        g3 == g2 + (IF ~is_known_brand(r.merchant_norm) THEN 2 ELSE 0)
        g4 == g3 + (IF r.mean_interval_days # None
                 /\ InRange(GRAY_INTERVAL_RANGE, r.mean_interval_days)
                 /\ LT(r.amount_mean, GRAY_MICRO_AMOUNT_THRESHOLD)
              THEN 2 ELSE 0)
        g5 == g4 + (IF r.num_txns >= GRAY_HIGH_FREQ_TXNS
                 /\ LT(r.amount_mean, GRAY_HIGH_FREQ_AMOUNT)
              THEN 2 ELSE 0)
        g6 == g5 + (IF r.active_days > GRAY_LONG_ACTIVE_DAYS
                 /\ LT(r.amount_mean, GRAY_LONG_ACTIVE_AMOUNT)
              THEN 1 ELSE 0)
    IN  g6

\* compute_label with thresholds that must be exceeded
LabelAboveThreshold(subscription_score) ==
    IF subscription_score > SUB_LIKELY_THRESHOLD THEN "likely_subscription"
    ELSE IF subscription_score > SUB_POSSIBLE_THRESHOLD THEN "possible_subscription"
    ELSE "not_subscription"

\* compute_label, lines 411-418
compute_label(subscription_score) ==
    IF subscription_score >= SUB_LIKELY_THRESHOLD THEN "likely_subscription"
    ELSE IF subscription_score >= SUB_POSSIBLE_THRESHOLD THEN "possible_subscription"
    ELSE "not_subscription"

FITNESS == <<"f", "i", "t", "n", "e", "s", "s">>

EDUCATION == <<"e", "d", "u", "c", "a", "t", "i", "o", "n">>

\* compute_tags with the second gray test an if, not an elif
TagsBothGray(r) ==
    (IF r.label \in {"likely_subscription", "possible_subscription"}
     THEN (IF r.gray_score >= GRAY_TAG_THRESHOLD THEN <<"gray_recurring_fee">>
           ELSE <<>>)
          \o (IF r.gray_score >= GRAY_POSSIBLY_TAG_THRESHOLD
              THEN <<"possibly_gray_recurring_fee">> ELSE <<>>)
     ELSE <<>>)
    \o (IF r.label # "not_subscription"
           /\ LT(r.amount_mean, SUB_MICRO_AMOUNT_THRESHOLD)
        THEN <<"micro_subscription">> ELSE <<>>)
    \o (IF r.label = "likely_subscription"
           /\ Lower(r.category) \in {FITNESS, EDUCATION}
        THEN <<"possibly_unused_subscription">> ELSE <<>>)

\* compute_tags with the micro tag given whatever the label
TagsMicroAnyLabel(r) ==
    (IF r.label \in {"likely_subscription", "possible_subscription"}
     THEN (IF r.gray_score >= GRAY_TAG_THRESHOLD THEN <<"gray_recurring_fee">>
           ELSE IF r.gray_score >= GRAY_POSSIBLY_TAG_THRESHOLD
                THEN <<"possibly_gray_recurring_fee">>
                ELSE <<>>)
     ELSE <<>>)
    \o (IF LT(r.amount_mean, SUB_MICRO_AMOUNT_THRESHOLD)
        THEN <<"micro_subscription">> ELSE <<>>)
    \o (IF r.label = "likely_subscription"
           /\ Lower(r.category) \in {FITNESS, EDUCATION}
        THEN <<"possibly_unused_subscription">> ELSE <<>>)

\* compute_tags, lines 420-443: the tags in the order they are appended
compute_tags(r) ==
    (IF r.label \in {"likely_subscription", "possible_subscription"}
     THEN (IF r.gray_score >= GRAY_TAG_THRESHOLD THEN <<"gray_recurring_fee">>
           ELSE IF r.gray_score >= GRAY_POSSIBLY_TAG_THRESHOLD
                THEN <<"possibly_gray_recurring_fee">>
                ELSE <<>>)
     ELSE <<>>)
    \o (IF r.label # "not_subscription"
           /\ LT(r.amount_mean, SUB_MICRO_AMOUNT_THRESHOLD)
        THEN <<"micro_subscription">> ELSE <<>>)
    \o (IF r.label = "likely_subscription"
           /\ Lower(r.category) \in {FITNESS, EDUCATION}
        THEN <<"possibly_unused_subscription">> ELSE <<>>)

\* lines 461-466: a row of merchant_df with its four score columns
ScoredRow(r, spend) ==
    LET subscription_score == compute_subscription_score(r)
        gray_score == compute_gray_score(r, spend)
        label == compute_label(subscription_score)
    IN  [merchant |-> r.merchant,
         merchant_norm |-> r.merchant_norm,
         num_txns |-> r.num_txns,
         mean_interval_days |-> r.mean_interval_days,
         std_interval_days |-> r.std_interval_days,
         amount_mean |-> r.amount_mean,
         amount_std |-> r.amount_std,
         amount_cv |-> r.amount_cv,
         active_days |-> r.active_days,
         price_increase_pct |-> r.price_increase_pct,
         category |-> r.category,
         subscription_score |-> subscription_score,
         gray_score |-> gray_score,
         label |-> label,
         tags |-> compute_tags([label |-> label, gray_score |-> gray_score,
                               amount_mean |-> r.amount_mean,
                               category |-> r.category])]

-----------------------------------------------------------------------------
(* run_heuristic_scoring, lines 445-525 *)

\* what a call did: returned out, or raised an exception
Returned(op, out) == [op |-> op, raised |-> FALSE, out |-> out]

Raised(op) == [op |-> op, raised |-> TRUE, out |-> <<>>]

NoCall == Returned("none", <<>>)

\* ScoringOutput(merchants=[], transactions=[])
EmptyScoringOutput == [merchants |-> <<>>, transactions |-> <<>>]

\* expense_df.groupby('month')['amount'].sum()
MonthlyExpenses(expense_df) ==
    LET months == Unique(Column(expense_df, "month"))
        inMonth(m) == SelectSeq(expense_df, LAMBDA r : r.month = m)
    IN  [i \in 1..Len(months) |-> SumSeq(Column(inMonth(months[i]), "amount"))]

\* lines 451-453
AvgMonthlySpend(d) ==
    LET monthly_expenses == MonthlyExpenses(ExpenseRows(d))
    IN  IF Len(monthly_expenses) > 0 THEN Mean(monthly_expenses) ELSE Num(0, 1)

\* merchant_lookup.get(merchant), lines 490 and 495: the index of the row of
\* merchant_df kept for the merchant, 0 for None
MerchantLookup(merchant_df, merchant) ==
    LET at == {i \in 1..Len(merchant_df) : merchant_df[i].merchant = merchant}
    IN  IF at = {} THEN 0 ELSE CHOOSE i \in at : \A j \in at : j <= i

\* Annotate with merchant_gray_score taken from the subscription score column
AnnotateScoreForGray(txn, merchant_df) ==
    LET m == MerchantLookup(merchant_df, txn.merchant)
        found == m # 0
    IN  [date |-> Strftime(txn.date),
         merchant |-> txn.merchant,
         category |-> txn.category,
         amount |-> txn.amount,
         type |-> txn.type,
         notes |-> txn.notes,
         label |-> IF found THEN merchant_df[m].label ELSE "not_subscription",
         merchant_score |-> IF found THEN merchant_df[m].subscription_score ELSE 0,
         merchant_gray_score |-> IF found THEN merchant_df[m].subscription_score ELSE 0,
         merchant_tags |-> IF found THEN merchant_df[m].tags ELSE <<>>]

\* lines 494-523: the AnnotatedTransaction of one ledger row
Annotate(txn, merchant_df) ==
    LET m == MerchantLookup(merchant_df, txn.merchant)
        found == m # 0
    IN  [date |-> Strftime(txn.date),
         merchant |-> txn.merchant,
         category |-> txn.category,
         amount |-> txn.amount,
         type |-> txn.type,
         notes |-> txn.notes,
         label |-> IF found THEN merchant_df[m].label ELSE "not_subscription",
         merchant_score |-> IF found THEN merchant_df[m].subscription_score ELSE 0,
         merchant_gray_score |-> IF found THEN merchant_df[m].gray_score ELSE 0,
         merchant_tags |-> IF found THEN merchant_df[m].tags ELSE <<>>]

\* lines 461-466: merchant_df with its score, label and tag columns
ScoreMerchants(merchant_features, spend) ==
    LET features == DataFrame(merchant_features)
    IN  [i \in 1..Len(features) |-> ScoredRow(features[i], spend)]

\* lines 468-525: the output built from merchant_df and a walk over the rows
\* of the ledger d.  A date that is still a string has no strftime
\* (AttributeError), a nan in notes is no Optional[str] (ValidationError).
AnnotationWalk(d, merchant_df) ==
    IF \E i \in 1..Len(d.rows) : ~d.datetime \/ d.rows[i].notes = NAN_CELL
    THEN Raised("run_heuristic_scoring")
    ELSE Returned("run_heuristic_scoring",
                  [merchants |-> merchant_df,
                   transactions |->
                       [i \in 1..Len(d.rows) |-> Annotate(d.rows[i], merchant_df)]])

\* lines 450-525: the pipeline behind the emptiness check; merchant_features
\* is what compute_merchant_features returned.  A column that the ledger
\* lacks raises KeyError.
ScoringPipeline(d, merchant_features) ==
    IF ~({"type", "month", "amount"} \subseteq d.cols) THEN Raised("run_heuristic_scoring")
    ELSE IF merchant_features = <<>>
    THEN Returned("run_heuristic_scoring", EmptyScoringOutput)
    ELSE AnnotationWalk(d, ScoreMerchants(merchant_features, AvgMonthlySpend(d)))

\* run_heuristic_scoring without the emptiness check of lines 447-448
RunWithoutEmptyCheck(d, merchant_features) == ScoringPipeline(d, merchant_features)

\* a variant that converts every interval with float(), as lines 477-478 convert
\* the amounts: float(None) raises TypeError
RunConvertsIntervals(d, merchant_features) ==
    IF Empty(d) THEN Returned("run_heuristic_scoring", EmptyScoringOutput)
    ELSE IF \E i \in 1..Len(merchant_features) :
                DataFrame(merchant_features)[i].mean_interval_days = None
    THEN Raised("run_heuristic_scoring")
    ELSE ScoringPipeline(d, merchant_features)

\* run_heuristic_scoring
run_heuristic_scoring(d, merchant_features) ==
    IF Empty(d) THEN Returned("run_heuristic_scoring", EmptyScoringOutput)
    ELSE ScoringPipeline(d, merchant_features)

-----------------------------------------------------------------------------
(* detect_subscriptions, lines 527-574 *)

\* the indices of keys in the order of sorted(..., reverse=True): descending,
\* stable (equal keys keep their order)
RECURSIVE StableDescOrder(_)
StableDescOrder(keys) ==
    IF keys = <<>> THEN <<>>
    ELSE LET n == Len(keys)
             init == StableDescOrder(SubSeq(keys, 1, n - 1))
             k == Cardinality({i \in 1..Len(init) : keys[init[i]] >= keys[n]})
         IN  SubSeq(init, 1, k) \o <<n>> \o SubSeq(init, k + 1, Len(init))

\* sorted(s, key=lambda x: x[field]) without reverse=True
SortedAscBy(s, field) ==
    LET order == StableDescOrder(Column(s, field))
    IN  [i \in 1..Len(s) |-> s[order[Len(s) + 1 - i]]]

\* sorted(s, key=lambda x: x[field], reverse=True)
SortedDescBy(s, field) ==
    LET order == StableDescOrder(Column(s, field))
    IN  [i \in 1..Len(s) |-> s[order[i]]]

MaxOf(s) == CHOOSE x \in {s[i] : i \in 1..Len(s)} : \A i \in 1..Len(s) : s[i] <= x

\* a filter that keeps the likely subscriptions only
OnlyLikelyLabel(m) == m.label = "likely_subscription"

IsSubscriptionLabel(m) == m.label \in {"likely_subscription", "possible_subscription"}

\* a frequency that knows the monthly band only
FrequencyMonthlyOnly(mean_interval_days) ==
    IF mean_interval_days # None
         /\ InRange(SUB_MONTHLY_INTERVAL_RANGE, mean_interval_days)
    THEN "monthly"
    ELSE "recurring"

\* lines 544-553
Frequency(mean_interval_days) ==
    IF mean_interval_days # None
    THEN (IF InRange(SUB_WEEKLY_INTERVAL_RANGE, mean_interval_days) THEN "weekly"
          ELSE IF InRange(SUB_MONTHLY_INTERVAL_RANGE, mean_interval_days) THEN "monthly"
          ELSE "recurring")
    ELSE "recurring"

\* a Subscription whose last charge is the date of the merchant's last row in
\* ledger order instead of the maximum date
SubscriptionOfLastRow(m, expense_df) ==
    LET m_df == OfMerchant(expense_df, m.merchant)
    IN  [merchant |-> m.merchant,
         amount |-> m.amount_mean,
         frequency |-> Frequency(m.mean_interval_days),
         last_charge |-> Strftime(m_df[Len(m_df)].date),
         total_spent |-> SumSeq(Column(m_df, "amount")),
         is_gray_charge |->
             \E i \in 1..Len(m.tags) :
                 m.tags[i] \in {"gray_recurring_fee", "possibly_gray_recurring_fee"},
         confidence |-> IF m.label = "likely_subscription" THEN "high" ELSE "medium"]

\* lines 540-572: the Subscription of merchant record m
SubscriptionOf(m, expense_df) ==
    LET m_df == OfMerchant(expense_df, m.merchant)
    IN  [merchant |-> m.merchant,
         amount |-> m.amount_mean,
         frequency |-> Frequency(m.mean_interval_days),
         last_charge |-> Strftime(MaxOf(Column(m_df, "date"))),
         total_spent |-> SumSeq(Column(m_df, "amount")),
         is_gray_charge |->
             \E i \in 1..Len(m.tags) :
                 m.tags[i] \in {"gray_recurring_fee", "possibly_gray_recurring_fee"},
         confidence |-> IF m.label = "likely_subscription" THEN "high" ELSE "medium"]

\* detect_subscriptions; the maximum date of no rows is NaT, whose strftime
\* raises ValueError
detect_subscriptions(d, merchant_features) ==
    IF Empty(d) THEN Returned("detect_subscriptions", <<>>)
    ELSE LET scoring_output == run_heuristic_scoring(d, merchant_features)
             expense_df == ExpenseRows(d)
             ms == SelectSeq(scoring_output.out.merchants, IsSubscriptionLabel)
         IN  IF scoring_output.raised THEN Raised("detect_subscriptions")
             ELSE IF \E i \in 1..Len(ms) : OfMerchant(expense_df, ms[i].merchant) = <<>>
             THEN Raised("detect_subscriptions")
             ELSE Returned("detect_subscriptions",
                           SortedDescBy([i \in 1..Len(ms) |->
                                            SubscriptionOf(ms[i], expense_df)],
                                        "total_spent"))

-----------------------------------------------------------------------------
(* get_transactions, lines 85-101 *)

\* the default of the parameter limit
DEFAULT_LIMIT == 100

\* get_transactions: the results it may return for the ledger d, one for each
\* order in which sort_values('date', ascending=False) may leave equal dates
get_transactions(d, limit) ==
    IF Empty(d) THEN {Returned("get_transactions", <<>>)}
    ELSE { Returned("get_transactions",
                    [i \in 1..(IF limit < Len(t) THEN limit ELSE Len(t)) |->
                        LET r == t[Len(t) + 1 - i]
                        IN  [date |-> Strftime(r.date),
                             merchant |-> r.merchant,
                             category |-> r.category,
                             amount |-> r.amount,
                             type |-> r.type,
                             notes |-> r.notes]]) :
             t \in SortValues(d.rows) }

-----------------------------------------------------------------------------
(* _detect_anomalies, lines 219-258 *)

\* Series.std(): the sample standard deviation (divisor n - 1), nan for one value
SampleStd(s) ==
    LET n == Len(s)
        S == SumSeq(s)
    IN  IF n < 2 THEN NaN ELSE Sqrt(n * SumSeq(Squares(s)) - S * S, n * (n - 1))

\* a > mean + 2 * std for the amounts s, with mean and std as lines 229-230
\* compute them: (a - mean)^2 > 4 * std^2 with a above the mean
ExceedsTwoStd(a, s) ==
    LET n == Len(s)
        S == SumSeq(s)
        dev == a * n - S
    IN  /\ n >= 2
        /\ dev > 0
        /\ dev * dev * (n - 1) > 4 * n * (n * SumSeq(Squares(s)) - S * S)

\* (a - mean) / std of line 244, for an outlier a
Deviation(a, s) ==
    LET n == Len(s)
        S == SumSeq(s)
        dev == a * n - S
    IN  Sqrt(dev * dev * (n - 1), n * (n * SumSeq(Squares(s)) - S * S))

\* lines 228-245: the statistical flags of category c
CategoryAnomalies(expense_df, c) ==
    LET cat_df == SelectSeq(expense_df, LAMBDA r : r.category = c)
        amounts == Column(cat_df, "amount")
        outliers == SelectSeq(cat_df, LAMBDA r : ExceedsTwoStd(r.amount, amounts))
    IN  IF SampleStd(amounts) = Num(0, 1) THEN <<>>
        ELSE [i \in 1..Len(outliers) |->
                [kind |-> "statistical",
                 date |-> Strftime(outliers[i].date),
                 merchant |-> outliers[i].merchant,
                 category |-> c,
                 amount |-> outliers[i].amount,
                 avg_for_category |-> Mean(amounts),
                 deviation |-> Deviation(outliers[i].amount, amounts),
                 note |-> <<>>]]

\* lines 227-245: the statistical flags, category by category
RECURSIVE StatisticalAnomalies(_, _)
StatisticalAnomalies(expense_df, categories) ==
    IF categories = <<>> THEN <<>>
    ELSE CategoryAnomalies(expense_df, Head(categories))
            \o StatisticalAnomalies(expense_df, Tail(categories))

ANOMALY == <<"a", "n", "o", "m", "a", "l", "y">>

\* str.contains('Anomaly|anomaly', case=False)
NotesFlagged(r) == Contains(ANOMALY, Lower(r.notes))

\* lines 248-256: the rows flagged by their notes appended in turn, each
\* unless the list already holds an entry of its merchant and date
RECURSIVE WithNoteAnomalies(_, _)
WithNoteAnomalies(anomalies, anomaly_notes) ==
    IF anomaly_notes = <<>> THEN anomalies
    ELSE LET r == Head(anomaly_notes)
             dup == \E i \in 1..Len(anomalies) :
                        /\ anomalies[i].merchant = r.merchant
                        /\ anomalies[i].date = Strftime(r.date)
             entry == [kind |-> "note",
                       date |-> Strftime(r.date),
                       merchant |-> r.merchant,
                       category |-> r.category,
                       amount |-> r.amount,
                       avg_for_category |-> None,
                       deviation |-> None,
                       note |-> r.notes]
         IN  WithNoteAnomalies(IF dup THEN anomalies ELSE Append(anomalies, entry),
                               Tail(anomaly_notes))

\* _detect_anomalies
detect_anomalies(d) ==
    IF Empty(d) THEN Returned("_detect_anomalies", <<>>)
    ELSE LET expense_df == ExpenseRows(d)
         IN  Returned("_detect_anomalies",
                      SortedDescBy(WithNoteAnomalies(StatisticalAnomalies(expense_df,
                                                       Unique(Column(expense_df, "category"))),
                                                     SelectSeq(expense_df, NotesFlagged)),
                                   "amount"))

-----------------------------------------------------------------------------
(* The analytics object in use: calls made one after another *)

\* the scorer variables while the scorers are not called on their own
NoRow == <<>>

ScorersIdle ==
    /\ row = NoRow
    /\ avg_monthly_spend = Num(0, 1)
    /\ ret = NoCall

\* no call is under way
ThreadsIdle ==
    /\ load_pc = "idle"
    /\ run_pc = "idle"
    /\ run_merchant_df = <<>>
    /\ reads = <<>>
    /\ version = 0

\* FinancialAnalytics(), lines 66-68: the constructor loads the ledger; the
\* file may be unreadable
Init ==
    /\ source \in CsvFiles
    /\ \E ok \in BOOLEAN : df = load_data(source, ok)
    /\ loaded = df
    /\ result = NoCall
    /\ ScorersIdle
    /\ ThreadsIdle

\* load_data() leaving the ledger it had when the file cannot be read
LoadDataKeepsLedger ==
    /\ \E ok \in BOOLEAN :
           /\ df' = IF ok THEN load_data(source, ok) ELSE df
           /\ result' = Returned("load_data", IF ok THEN <<>> ELSE <<"Error loading data">>)
    /\ loaded' = df'
    /\ UNCHANGED <<source, row, avg_monthly_spend, ret, threads>>

\* load_data(): the file is read, or reading it fails; it returns None, and
\* out is what line 82 printed
LoadData ==
    /\ \E ok \in BOOLEAN :
           /\ df' = load_data(source, ok)
           /\ result' = Returned("load_data", IF ok THEN <<>> ELSE <<"Error loading data">>)
    /\ loaded' = df'
    /\ UNCHANGED <<source, row, avg_monthly_spend, ret, threads>>

\* compute_merchant_features() sorting self.df itself instead of a copy
ComputeMerchantFeaturesInPlace ==
    /\ \E merchant_features \in compute_merchant_features(df) :
           result' = Returned("compute_merchant_features", merchant_features)
    /\ \E sorted \in SortValues(df.rows) : df' = [df EXCEPT !.rows = sorted]
    /\ UNCHANGED <<source, loaded, row, avg_monthly_spend, ret, threads>>

\* compute_merchant_features()
ComputeMerchantFeatures ==
    /\ \E merchant_features \in compute_merchant_features(df) :
           result' = Returned("compute_merchant_features", merchant_features)
    /\ UNCHANGED <<source, df, loaded, row, avg_monthly_spend, ret, threads>>

\* run_heuristic_scoring()
RunHeuristicScoring ==
    /\ \E merchant_features \in compute_merchant_features(df) :
           result' = run_heuristic_scoring(df, merchant_features)
    /\ UNCHANGED <<source, df, loaded, row, avg_monthly_spend, ret, threads>>

\* detect_subscriptions()
DetectSubscriptions ==
    /\ \E merchant_features \in compute_merchant_features(df) :
           result' = detect_subscriptions(df, merchant_features)
    /\ UNCHANGED <<source, df, loaded, row, avg_monthly_spend, ret, threads>>

\* get_transactions(limit)
GetTransactions ==
    /\ \E limit \in {1, DEFAULT_LIMIT} : result' \in get_transactions(df, limit)
    /\ UNCHANGED <<source, df, loaded, row, avg_monthly_spend, ret, threads>>

\* _detect_anomalies()
DetectAnomalies ==
    /\ result' = detect_anomalies(df)
    /\ UNCHANGED <<source, df, loaded, row, avg_monthly_spend, ret, threads>>

Next ==
    \/ LoadData
    \/ ComputeMerchantFeatures
    \/ RunHeuristicScoring
    \/ DetectSubscriptions
    \/ DetectAnomalies
    \/ GetTransactions

Spec == Init /\ [][Next]_vars

-----------------------------------------------------------------------------
(* The analytics object shared by two threads: load_data() refreshing the
   ledger while run_heuristic_scoring() runs, each one statement at a time.
   Neither method takes a lock or copies self.df. *)

\* the files refreshed: at least one row, at most MaxConcLen
ConcFiles == { file \in CsvFiles : Len(file) \in 1..MaxConcLen }

InitConc ==
    /\ source \in ConcFiles
    /\ df = load_data(source, TRUE)
    /\ loaded = df
    /\ result = NoCall
    /\ ScorersIdle
    /\ ThreadsIdle

\* line 73, self.df = pd.read_csv(...): self.df is the raw frame from here
\* on; or the read fails and line 83 leaves the empty frame
ReadCsv ==
    /\ load_pc = "idle"
    /\ version < MaxRefreshes
    /\ \E ok \in BOOLEAN :
           IF ok THEN df' = read_csv(source) /\ load_pc' = "to_datetime"
           ELSE df' = EmptyDataFrame /\ load_pc' = "idle"
    /\ loaded' = df'
    /\ version' = version + 1
    /\ UNCHANGED <<source, result, row, avg_monthly_spend, ret, run_pc,
                   run_merchant_df, reads>>

\* line 74
ToDatetimeColumn ==
    /\ load_pc = "to_datetime"
    /\ df' = ParseDates(df)
    /\ loaded' = df'
    /\ load_pc' = "month"
    /\ UNCHANGED <<source, result, row, avg_monthly_spend, ret, run_pc,
                   run_merchant_df, reads, version>>

\* line 75
MonthColumn ==
    /\ load_pc = "month"
    /\ df' = AddMonth(df)
    /\ loaded' = df'
    /\ load_pc' = "to_numeric"
    /\ UNCHANGED <<source, result, row, avg_monthly_spend, ret, run_pc,
                   run_merchant_df, reads, version>>

\* line 76: the amounts are numbers already
ToNumericColumn ==
    /\ load_pc = "to_numeric"
    /\ load_pc' = "notes"
    /\ UNCHANGED <<source, df, loaded, result, row, avg_monthly_spend, ret, run_pc,
                   run_merchant_df, reads, version>>

\* lines 78-80
NotesColumn ==
    /\ load_pc = "notes"
    /\ df' = FillNotes(df)
    /\ loaded' = df'
    /\ load_pc' = "idle"
    /\ UNCHANGED <<source, result, row, avg_monthly_spend, ret, run_pc,
                   run_merchant_df, reads, version>>

\* a read of self.df at the given line: the version read, and whether
\* load_data has finished with it
ReadsDf(line) ==
    reads' = Append(reads, [line |-> line, version |-> version,
                            prepared |-> load_pc = "idle"])

\* run_heuristic_scoring() is called
CallRun ==
    /\ run_pc \in {"idle", "done"}
    /\ run_pc' = "empty"
    /\ reads' = <<>>
    /\ run_merchant_df' = <<>>
    /\ avg_monthly_spend' = Num(0, 1)
    /\ UNCHANGED <<source, df, loaded, result, row, ret, load_pc, version>>

\* lines 447-448
CheckEmpty ==
    /\ run_pc = "empty"
    /\ ReadsDf(447)
    /\ IF Empty(df)
       THEN /\ result' = Returned("run_heuristic_scoring", EmptyScoringOutput)
            /\ run_pc' = "done"
       ELSE /\ run_pc' = "monthly_expenses"
            /\ UNCHANGED result
    /\ UNCHANGED <<source, df, loaded, row, avg_monthly_spend, ret, load_pc,
                   run_merchant_df, version>>

\* lines 451-453: KeyError when self.df has no type or no month column
MonthlySpend ==
    /\ run_pc = "monthly_expenses"
    /\ ReadsDf(451)
    /\ IF {"type", "month", "amount"} \subseteq df.cols
       THEN /\ avg_monthly_spend' = AvgMonthlySpend(df)
            /\ run_pc' = "features_empty"
            /\ UNCHANGED result
       ELSE /\ result' = Raised("run_heuristic_scoring")
            /\ run_pc' = "done"
            /\ UNCHANGED avg_monthly_spend
    /\ UNCHANGED <<source, df, loaded, row, ret, load_pc, run_merchant_df, version>>

\* lines 266-267 and 457-458: an empty self.df gives an empty merchant_df
FeaturesCheckEmpty ==
    /\ run_pc = "features_empty"
    /\ ReadsDf(266)
    /\ IF Empty(df)
       THEN /\ result' = Returned("run_heuristic_scoring", EmptyScoringOutput)
            /\ run_pc' = "done"
       ELSE /\ run_pc' = "features"
            /\ UNCHANGED result
    /\ UNCHANGED <<source, df, loaded, row, avg_monthly_spend, ret, load_pc,
                   run_merchant_df, version>>

\* two debit rows of one merchant: np.diff is taken of their dates
HasIntervals(d) ==
    \E i, j \in 1..Len(d.rows) :
        /\ i < j
        /\ IsDebit(d.rows[i])
        /\ IsDebit(d.rows[j])
        /\ d.rows[i].merchant = d.rows[j].merchant

\* lines 269-324 and 457-466: KeyError when self.df has no type column,
\* TypeError when np.diff meets dates that are still strings (which sort as
\* their dates do); otherwise merchant_df, and a return if it is empty
Features ==
    /\ run_pc = "features"
    /\ ReadsDf(269)
    /\ IF "type" \notin df.cols \/ (~df.datetime /\ HasIntervals(df))
       THEN /\ result' = Raised("run_heuristic_scoring")
            /\ run_pc' = "done"
            /\ UNCHANGED run_merchant_df
       ELSE \E merchant_features \in
                   ExtractFeatures(IF df.datetime THEN df ELSE ParseDates(df)) :
               IF merchant_features = <<>>
               THEN /\ result' = Returned("run_heuristic_scoring", EmptyScoringOutput)
                    /\ run_pc' = "done"
                    /\ UNCHANGED run_merchant_df
               ELSE /\ run_merchant_df' = ScoreMerchants(merchant_features,
                                                          avg_monthly_spend)
                    /\ run_pc' = "annotate"
                    /\ UNCHANGED result
    /\ UNCHANGED <<source, df, loaded, row, avg_monthly_spend, ret, load_pc, version>>

\* lines 468-525: the walk over self.df.iterrows() and the return
AnnotateTransactions ==
    /\ run_pc = "annotate"
    /\ ReadsDf(493)
    /\ result' = AnnotationWalk(df, run_merchant_df)
    /\ run_pc' = "done"
    /\ UNCHANGED <<source, df, loaded, row, avg_monthly_spend, ret, load_pc,
                   run_merchant_df, version>>

NextConc ==
    \/ ReadCsv
    \/ ToDatetimeColumn
    \/ MonthColumn
    \/ ToNumericColumn
    \/ NotesColumn
    \/ CallRun
    \/ CheckEmpty
    \/ MonthlySpend
    \/ FeaturesCheckEmpty
    \/ Features
    \/ AnnotateTransactions

SpecConc == InitConc /\ [][NextConc]_vars

-----------------------------------------------------------------------------
(* Properties of the calls on the ledger *)

IsRun == result.op = "run_heuristic_scoring" /\ ~result.raised

NeutralDefaults(t) ==
    /\ t.label = "not_subscription"
    /\ t.merchant_score = 0
    /\ t.merchant_gray_score = 0
    /\ t.merchant_tags = <<>>

\* C1: in the output of run_heuristic_scoring every credit transaction has
\* label not_subscription, both scores 0 and no tags, also when its merchant
\* has debit transactions.
C1_CreditsNeutral ==
    IsRun =>
        \A i \in 1..Len(result.out.transactions) :
            result.out.transactions[i].type = "credit"
                => NeutralDefaults(result.out.transactions[i])

\* C2: for a non-empty ledger run_heuristic_scoring returns one annotated
\* transaction per ledger row, in order, with date, merchant, category, amount
\* and type preserved; with no debit row at all every one carries the
\* neutral defaults.
C2_OnePerTransaction ==
    (result.op = "run_heuristic_scoring" /\ df.rows # <<>>) =>
        /\ ~result.raised
        /\ Len(result.out.transactions) = Len(df.rows)
        /\ \A i \in 1..Len(df.rows) :
              LET t == result.out.transactions[i]
              IN  /\ ToDatetime(t.date) = df.rows[i].date
                  /\ t.date = source[i].date
                  /\ t.merchant = df.rows[i].merchant
                  /\ t.category = df.rows[i].category
                  /\ t.amount = df.rows[i].amount
                  /\ t.type = df.rows[i].type
                  /\ (ExpenseRows(df) = <<>> => NeutralDefaults(t))

\* C3: every annotated transaction whose merchant has a record in the
\* merchants roster carries that record's label, subscription_score,
\* gray_score and tags.
C3_AnnotationsMatchRoster ==
    IsRun =>
        \A i \in 1..Len(result.out.transactions) :
            \A j \in 1..Len(result.out.merchants) :
                LET t == result.out.transactions[i]
                    m == result.out.merchants[j]
                IN  t.merchant = m.merchant =>
                        /\ t.label = m.label
                        /\ t.merchant_score = m.subscription_score
                        /\ t.merchant_gray_score = m.gray_score
                        /\ t.merchant_tags = m.tags

\* a run whose roster holds two merchants with different scores, and a
\* transaction of each
C3_Witness ==
    /\ IsRun
    /\ Len(result.out.merchants) = 2
    /\ result.out.merchants[1].subscription_score
          # result.out.merchants[1].gray_score
    /\ result.out.merchants[1].gray_score # result.out.merchants[2].gray_score
    /\ \A j \in 1..2 : \E i \in 1..Len(result.out.transactions) :
          result.out.transactions[i].merchant = result.out.merchants[j].merchant

\* C4: on an empty ledger run_heuristic_scoring returns
\* ScoringOutput(merchants=[], transactions=[]) and detect_subscriptions
\* returns [], and neither raises.
C4_EmptyLedger ==
    Empty(df) =>
        /\ result.op = "run_heuristic_scoring"
              => ~result.raised /\ result.out = EmptyScoringOutput
        /\ result.op = "detect_subscriptions"
              => ~result.raised /\ result.out = <<>>

\* run_heuristic_scoring has returned on the ledger left by a failed load
C4_Witness ==
    /\ df = EmptyDataFrame
    /\ result.op = "run_heuristic_scoring"
    /\ result.out = EmptyScoringOutput

\* the feature dicts as a set, whatever the order of the roster
AsSet(s) == {s[i] : i \in 1..Len(s)}

\* the orderings of the rows of a ledger
Reorderings(rows) ==
    { [i \in 1..Len(rows) |-> rows[p[i]]] : p \in Permutations(1..Len(rows)) }

\* C5: the features of every merchant are the same for any two ledgers that
\* are permutations of one another (a function of the multiset of its debit
\* transactions), also when transactions of one date differ in amount.
C5_FeaturesOfMultiset ==
    result.op = "compute_merchant_features" =>
        \A rows \in Reorderings(df.rows) :
            \A merchant_features \in compute_merchant_features([df EXCEPT !.rows = rows]) :
                AsSet(merchant_features) = AsSet(result.out)

\* C6: a scoring run that runs beside a refresh sees one consistent ledger:
\* all its reads of self.df see the same version of the ledger, and none sees
\* a ledger that load_data has assigned and not yet finished preparing.
C6_ConsistentSnapshot ==
    \A i, j \in 1..Len(reads) :
        /\ reads[i].version = reads[j].version
        /\ reads[i].prepared

\* C7: run_heuristic_scoring, compute_merchant_features, detect_subscriptions
\* and _detect_anomalies leave self.df as load_data produced it: rows, row
\* order and columns.
C7_LedgerUnchanged == df = loaded

\* the features have been computed from a ledger whose rows are not in date
\* order
C7_Witness ==
    /\ result.op = "compute_merchant_features"
    /\ result.out # <<>>
    /\ df.rows \notin SortValues(df.rows)

-----------------------------------------------------------------------------
(* The scorers called on their own, on feature vectors of any shape *)

LOWER_SOFTWARE == <<"s", "o", "f", "t", "w", "a", "r", "e">>

FeatureVector(merchant, num_txns, mean_interval, std_interval, amount_mean, amount_cv, active_days, price_increase_pct, category) ==
    [merchant |-> merchant,
     merchant_norm |-> normalize_merchant(merchant),
     num_txns |-> num_txns,
     mean_interval_days |-> mean_interval,
     std_interval_days |-> std_interval,
     amount_mean |-> amount_mean,
     amount_std |-> Num(0, 1),
     amount_cv |-> amount_cv,
     active_days |-> active_days,
     price_increase_pct |-> price_increase_pct,
     category |-> category]

\* num_txns=3, mean_interval_days=30, std_interval_days=0, amount_cv=0.0,
\* amount_mean=15, category "software", active_days=90, no price increase
BoundaryVector ==
    FeatureVector(NETFLIX, 3, Num(30, 1), Num(0, 1), Num(15, 1), Num(0, 1), 90, None,
                  LOWER_SOFTWARE)

\* amount_mean=2, mean_interval_days=30, unknown brand, num_txns=7,
\* active_days=200
GrayVector ==
    FeatureVector(QUICKFEE, 7, Num(30, 1), Num(0, 1), Num(2, 1), Num(0, 1), 200, None,
                  MISC)

\* the values of each feature: on, just inside and just outside every
\* threshold of the rules, absent (None) and nan
NumTxnsValues == 1..MaxTxns

IntervalValues ==
    { None, NaN, Num(11, 2), Num(6, 1), Num(8, 1), Num(17, 2), Num(49, 2), Num(25, 1),
      Num(53, 2), Num(27, 1), Num(30, 1), Num(33, 1), Num(67, 2), Num(45, 1), Num(91, 2) }

StdValues == { None, NaN, Num(0, 1), Num(3, 1), Sqrt(9, 1), Sqrt(10, 1), Num(7, 2) }

CvValues ==
    { None, NaN, Num(0, 1), Num(1, 20), Sqrt(1, 400), Sqrt(1, 399), Num(3, 50) }

AmountValues ==
    { Num(2, 1), Num(5, 2), Num(3, 1), Num(9, 2), Num(5, 1), Num(19, 2), Num(10, 1),
      Num(15, 1), Num(50, 1), Num(101, 2) }

CategoryValues == { SOFTWARE, LOWER_SOFTWARE, MISC, FITNESS }

ActiveDaysValues == { 0, 89, 90, 180, 181, 200 }

PriceValues ==
    { None, NaN, Num(-1, 10), Num(1, 25), Num(1, 20), Num(1, 10), Num(1, 5),
      Num(21, 100) }

MerchantValues == { NETFLIX, QUICKFEE }

\* the vectors that differ from v in at most one feature
Vary(v) ==
    {v}
    \cup { [v EXCEPT !.merchant = x, !.merchant_norm = normalize_merchant(x)] :
             x \in MerchantValues }
    \cup { [v EXCEPT !.num_txns = x] : x \in NumTxnsValues }
    \cup { [v EXCEPT !.mean_interval_days = x] : x \in IntervalValues }
    \cup { [v EXCEPT !.std_interval_days = x] : x \in StdValues }
    \cup { [v EXCEPT !.amount_mean = x] : x \in AmountValues }
    \cup { [v EXCEPT !.amount_cv = x] : x \in CvValues }
    \cup { [v EXCEPT !.active_days = x] : x \in ActiveDaysValues }
    \cup { [v EXCEPT !.price_increase_pct = x] : x \in PriceValues }
    \cup { [v EXCEPT !.category = x] : x \in CategoryValues }

\* one vector for every combination of rules that hold and fail together
Corners ==
    { FeatureVector(me, n, mi, sd, am, cv, ad, pr, ca) :
        me \in MerchantValues,
        n \in {2, 3, 6},
        mi \in {Num(7, 1), Num(10, 1), Num(30, 1), Num(40, 1)},
        sd \in {Num(0, 1), Num(4, 1)},
        am \in {Num(2, 1), Num(4, 1), Num(7, 1), Num(15, 1), Num(100, 1)},
        cv \in {Num(0, 1), Num(1, 10)},
        ad \in {0, 90, 181},
        pr \in {Num(1, 10), Num(1, 2)},
        ca \in {FITNESS, MISC} }

\* the feature vectors the scorers are called on: the corners, and the two
\* vectors of the specification with any two features changed
FeatureVectors ==
    Corners \cup UNION { Vary(v) : v \in Vary(BoundaryVector) \cup Vary(GrayVector) }

\* the baselines: no spend; amount 2 is 2% and 0.04% of the others, amount 5
\* is 5% and 0.1%
SpendValues == { Num(0, 1), Num(100, 1), Num(5000, 1) }

LedgerIdle ==
    /\ source = <<>>
    /\ df = EmptyDataFrame
    /\ loaded = EmptyDataFrame
    /\ result = NoCall

InitScore ==
    /\ row \in FeatureVectors
    /\ avg_monthly_spend \in SpendValues
    /\ ret = NoCall
    /\ LedgerIdle
    /\ ThreadsIdle

\* compute_subscription_score(row)
CallSubscriptionScore ==
    /\ ret' = Returned("compute_subscription_score", compute_subscription_score(row))
    /\ UNCHANGED <<source, df, loaded, result, row, avg_monthly_spend, threads>>

\* compute_gray_score(row, avg_monthly_spend)
CallGrayScore ==
    /\ ret' = Returned("compute_gray_score", compute_gray_score(row, avg_monthly_spend))
    /\ UNCHANGED <<source, df, loaded, result, row, avg_monthly_spend, threads>>

\* lines 461-466: both scores, the label and the tags of the row
ScoreMerchant ==
    /\ ret' = Returned("score_merchant", ScoredRow(row, avg_monthly_spend))
    /\ UNCHANGED <<source, df, loaded, result, row, avg_monthly_spend, threads>>

NextScore ==
    \/ CallSubscriptionScore
    \/ CallGrayScore
    \/ ScoreMerchant

SpecScore == InitScore /\ [][NextScore]_vars

-----------------------------------------------------------------------------
(* The rule tables of the scorers, as the specification states them *)

Present(x) == x.k \in {"num", "sqrt"}

Between(lo, x, hi) == Present(x) /\ LE(lo, x) /\ LE(x, hi)

Below(x, limit) == Present(x) /\ ~LE(limit, x)

RuleSum(rules) ==
    SumSeq([i \in 1..Len(rules) |-> IF rules[i][1] THEN rules[i][2] ELSE 0])

SubscriptionCategoryNames ==
    { <<"e", "n", "t", "e", "r", "t", "a", "i", "n", "m", "e", "n", "t">>,
      <<"s", "o", "f", "t", "w", "a", "r", "e">>,
      <<"f", "i", "t", "n", "e", "s", "s">>,
      <<"s", "e", "r", "v", "i", "c", "e", "s">>,
      <<"e", "d", "u", "c", "a", "t", "i", "o", "n">>,
      <<"s", "u", "b", "s", "c", "r", "i", "p", "t", "i", "o", "n">> }

SubscriptionRules(v) ==
    << <<v.num_txns >= 3, 2>>,
       <<Between(Num(27, 1), v.mean_interval_days, Num(33, 1)), 3>>,
       <<Between(Num(6, 1), v.mean_interval_days, Num(8, 1)), 3>>,
       <<Present(v.std_interval_days) /\ LE(v.std_interval_days, Num(3, 1)), 1>>,
       <<Present(v.amount_cv) /\ LE(v.amount_cv, Num(1, 20)), 2>>,
       <<Between(Num(5, 1), v.amount_mean, Num(50, 1)), 1>>,
       <<Below(v.amount_mean, Num(5, 1)), 1>>,
       <<Lower(v.category) \in SubscriptionCategoryNames, 1>>,
       <<v.active_days >= 90 /\ v.num_txns >= 3, 1>>,
       <<Between(Num(1, 20), v.price_increase_pct, Num(1, 5)), 1>> >>

GrayRules(v, spend) ==
    << <<Below(v.amount_mean, Num(5, 1)), 2>>,
       <<spend.n > 0
         /\ Between(Num(1, 1000), Div(v.amount_mean, spend), Num(2, 100)), 1>>,
       <<~is_known_brand(v.merchant_norm), 2>>,
       <<Between(Num(25, 1), v.mean_interval_days, Num(45, 1))
         /\ Below(v.amount_mean, Num(5, 1)), 2>>,
       <<v.num_txns >= 6 /\ Below(v.amount_mean, Num(3, 1)), 2>>,
       <<v.active_days > 180 /\ Below(v.amount_mean, Num(10, 1)), 1>> >>

\* C8: compute_subscription_score returns the sum of the bonuses of the rules
\* of the table that hold, every range bound included; the vector num_txns=3,
\* mean_interval_days=30, std_interval_days=0, amount_cv=0, amount_mean=15,
\* category software, active_days=90, no price increase scores 11 and is
\* labelled likely_subscription.
C8_SubscriptionScoreIsRuleSum ==
    /\ ret.op = "compute_subscription_score"
         => ret.out = RuleSum(SubscriptionRules(row))
    /\ ret.op = "compute_subscription_score" /\ row = BoundaryVector
         => ret.out = 11
    /\ ret.op = "score_merchant" /\ row = BoundaryVector
         => /\ ret.out.subscription_score = 11
            /\ ret.out.label = "likely_subscription"

\* a monthly interval of exactly 27 days, the lower bound of its band, has
\* been scored and earned the monthly bonus
C8_Witness ==
    /\ ret.op = "compute_subscription_score"
    /\ row = [BoundaryVector EXCEPT !.mean_interval_days = Num(27, 1)]
    /\ ret.out = 11

\* C9 as stated: no call of the scorer returns more than 15, and 15 is the
\* score of some feature vector.
C9_MaxIs15 ==
    ret.op = "compute_subscription_score"
      => /\ ret.out <= 15
         /\ \E v \in FeatureVectors : compute_subscription_score(v) = 15

\* C9: the weekly and the monthly band are disjoint and so are the two rules
\* on amount_mean, so the largest score is 2+3+1+2+1+1+1+1 = 12: no feature
\* vector scores more than 12.
C9_MaxIs12 ==
    ret.op = "compute_subscription_score" => ret.out <= 12

\* the boundary vector with a price increase of 10% has scored 12
C9_Witness ==
    /\ ret.op = "compute_subscription_score"
    /\ row = [BoundaryVector EXCEPT !.price_increase_pct = Num(1, 10)]
    /\ ret.out = 12

IsGrayExample(v) ==
    /\ v.merchant = QUICKFEE
    /\ v.amount_mean = Num(2, 1)
    /\ v.mean_interval_days = Num(30, 1)
    /\ v.num_txns = 7
    /\ v.active_days = 200

\* C10: compute_gray_score returns the sum of the bonuses of the rules of the
\* table that hold, the micro-amount rule and the interval-and-micro-amount
\* rule both counted when both hold; an unknown brand with amount_mean=2,
\* mean_interval_days=30, num_txns=7, active_days=200 scores 9, 10 when the
\* spend-ratio rule holds too, and is tagged gray_recurring_fee.
C10_GrayScoreIsRuleSum ==
    /\ ret.op = "compute_gray_score"
         => /\ ret.out = RuleSum(GrayRules(row, avg_monthly_spend))
            /\ IsGrayExample(row)
                 => ret.out = IF GrayRules(row, avg_monthly_spend)[2][1] THEN 10 ELSE 9
    /\ ret.op = "score_merchant" /\ IsGrayExample(row)
         => /\ ret.out.gray_score \in {9, 10}
            /\ \E i \in DOMAIN ret.out.tags : ret.out.tags[i] = "gray_recurring_fee"

\* the example has been scored against a baseline of which its amount is 2%,
\* the upper bound of the spend-ratio rule: gray score 10 and the tag
C10_Witness ==
    /\ ret.op = "score_merchant"
    /\ row = GrayVector
    /\ avg_monthly_spend = Num(100, 1)
    /\ ret.out.gray_score = 10
    /\ ret.out.tags[1] = "gray_recurring_fee"

-----------------------------------------------------------------------------
(* The merchant normalizer called on merchant names of any spelling *)

\* an upper-case and two lower-case letters (they spell the brand hbo), the
\* two characters the normalizer replaces, and whitespace
NameChars == {"H", "b", "o", "-", "'", " "}

\* every name of at most MaxNameLen of these characters, and three
\* descriptors of known brands
MerchantNames ==
    UNION { [1..n -> NameChars] : n \in 0..MaxNameLen }
    \cup { <<"N", "e", "t", "f", "l", "i", "x", " ", "I", "n", "c", " ", "#", "4", "5", "2", "1">>,
           <<"W", "a", "l", "-", "M", "a", "r", "t">>,
           <<"T", "r", "a", "d", "e", "r", " ", "J", "o", "e", "'", "s">> }

\* a merchant of the given name: merchant_norm as line 312 computes it, the
\* other features such that no gray rule but the brand rule can hold
InitText ==
    /\ row \in { [BoundaryVector EXCEPT !.merchant = name,
                                       !.merchant_norm = normalize_merchant(name)] :
                  name \in MerchantNames }
    /\ avg_monthly_spend = Num(0, 1)
    /\ ret = NoCall
    /\ LedgerIdle
    /\ ThreadsIdle

\* normalize_merchant(merchant)
NormalizeMerchant ==
    /\ ret' = Returned("normalize_merchant", normalize_merchant(row.merchant))
    /\ UNCHANGED <<source, df, loaded, result, row, avg_monthly_spend, threads>>

\* is_known_brand(merchant_norm)
IsKnownBrand ==
    /\ ret' = Returned("is_known_brand", is_known_brand(row.merchant_norm))
    /\ UNCHANGED <<source, df, loaded, result, row, avg_monthly_spend, threads>>

NextText ==
    \/ NormalizeMerchant
    \/ IsKnownBrand
    \/ CallGrayScore

SpecText == InitText /\ [][NextText]_vars

\* the name in lower case without its apostrophes and hyphens
Disregarded(merchant) == Replace(Replace(Lower(merchant), "'", <<>>), "-", <<>>)

BrandOccurs(merchant) ==
    \E brand \in KNOWN_BRANDS : Contains(brand, Disregarded(merchant))

\* C11: a merchant in whose name, apostrophes and hyphens disregarded, a
\* brand of the allowlist occurs in any case is a known brand, and its gray
\* score holds no +2 for an unknown brand (for these merchants no other gray
\* rule holds, so the score is 0).
C11_BrandRecognised ==
    BrandOccurs(row.merchant)
      => /\ ret.op = "is_known_brand" => ret.out
         /\ ret.op = "compute_gray_score" => ret.out = 0

\* C12: normalize_merchant returns the name in lower case, stripped of
\* leading and trailing whitespace, with its apostrophes and hyphens deleted;
\* the result holds no apostrophe, no hyphen and no upper-case letter.
C12_NormalizeRemoves ==
    ret.op = "normalize_merchant"
      => /\ ret.out = Replace(Replace(Strip(Lower(row.merchant)), "'", <<>>), "-", <<>>)
         /\ \A i \in 1..Len(ret.out) :
                ret.out[i] \notin {"'", "-"} \cup DOMAIN ToLower

-----------------------------------------------------------------------------
(* Labels, tags and degenerate merchants *)

\* the labeler called on any integer, and on the scores of merchants of every
\* combination of the rules on num_txns, intervals and amounts
InitLabel ==
    /\ row \in { v \in Corners :
                  v.merchant = NETFLIX /\ v.category = MISC /\ v.active_days = 0 }
    /\ avg_monthly_spend = Num(0, 1)
    /\ ret = NoCall
    /\ LedgerIdle
    /\ ThreadsIdle

\* compute_label(subscription_score)
ComputeLabel ==
    /\ \E subscription_score \in -MaxScore..MaxScore :
           ret' = Returned("compute_label",
                           [subscription_score |-> subscription_score,
                            label |-> compute_label(subscription_score)])
    /\ UNCHANGED <<source, df, loaded, result, row, avg_monthly_spend, threads>>

NextLabel ==
    \/ ComputeLabel
    \/ ScoreMerchant

SpecLabel == InitLabel /\ [][NextLabel]_vars

\* the label the specification gives a subscription score
LabelAgrees(r) ==
    /\ r.label = "likely_subscription" <=> r.subscription_score >= 8
    /\ r.label = "possible_subscription"
         <=> (4 <= r.subscription_score /\ r.subscription_score < 8)
    /\ r.label = "not_subscription" <=> r.subscription_score < 4

\* C13: compute_label returns likely_subscription iff the score is at least
\* 8, possible_subscription iff it is at least 4 and below 8, and
\* not_subscription iff it is below 4; the label of every merchant record of
\* a ScoringOutput agrees with its subscription_score in this way.
C13_LabelFromScore ==
    /\ ret.op = "compute_label" => LabelAgrees(ret.out)
    /\ ret.op = "score_merchant" => LabelAgrees(ret.out)

\* a merchant that scores exactly 8 has been scored and labelled likely
C13_Witness ==
    /\ ret.op = "score_merchant"
    /\ ret.out.subscription_score = 8
    /\ ret.out.label = "likely_subscription"

HasTag(r, tag) == \E i \in 1..Len(r.tags) : r.tags[i] = tag

Labelled(r) == r.label \in {"likely_subscription", "possible_subscription"}

\* C14: no merchant record carries both gray tags; gray_recurring_fee is
\* present iff the label is likely or possible and gray_score >= 5,
\* possibly_gray_recurring_fee iff the label is likely or possible and
\* 3 <= gray_score < 5.
C14_GrayTags ==
    ret.op = "score_merchant"
      => /\ ~(HasTag(ret.out, "gray_recurring_fee")
              /\ HasTag(ret.out, "possibly_gray_recurring_fee"))
         /\ HasTag(ret.out, "gray_recurring_fee")
              <=> (Labelled(ret.out) /\ ret.out.gray_score >= 5)
         /\ HasTag(ret.out, "possibly_gray_recurring_fee")
              <=> (Labelled(ret.out) /\ 3 <= ret.out.gray_score
                                    /\ ret.out.gray_score < 5)

\* a labelled merchant with gray score 5 carries gray_recurring_fee alone
C14_Witness ==
    /\ ret.op = "score_merchant"
    /\ Labelled(ret.out)
    /\ ret.out.gray_score = 5
    /\ HasTag(ret.out, "gray_recurring_fee")
    /\ ~HasTag(ret.out, "possibly_gray_recurring_fee")

\* C15: micro_subscription is present iff the label is not not_subscription
\* and amount_mean < 5; possibly_unused_subscription iff the label is
\* likely_subscription and the category in lower case is fitness or
\* education; a merchant labelled not_subscription has no tag.
C15_MicroAndUnusedTags ==
    ret.op = "score_merchant"
      => /\ HasTag(ret.out, "micro_subscription")
              <=> (ret.out.label # "not_subscription"
                   /\ Below(ret.out.amount_mean, Num(5, 1)))
         /\ HasTag(ret.out, "possibly_unused_subscription")
              <=> (ret.out.label = "likely_subscription"
                   /\ Lower(ret.out.category)
                        \in {<<"f", "i", "t", "n", "e", "s", "s">>,
                             <<"e", "d", "u", "c", "a", "t", "i", "o", "n">>})
         /\ ret.out.label = "not_subscription" => ret.out.tags = <<>>

\* a merchant labelled not_subscription with amount_mean below 5 has been
\* scored and carries no tag
C15_Witness ==
    /\ ret.op = "score_merchant"
    /\ ret.out.label = "not_subscription"
    /\ Below(ret.out.amount_mean, Num(5, 1))
    /\ ret.out.tags = <<>>

\* C16: a merchant with exactly one debit transaction has no
\* mean_interval_days, no std_interval_days and no price_increase_pct (each is
\* None), has active_days 0, and its subscription score is the sum of the
\* bonuses for amount_cv, the two amount_mean rules and the category alone,
\* whatever the other merchants of the ledger.
C16_SingleTransaction ==
    IsRun
      => \A i \in 1..Len(result.out.merchants) :
            LET m == result.out.merchants[i]
            IN  m.num_txns = 1
                  => /\ m.mean_interval_days = None
                     /\ m.std_interval_days = None
                     /\ m.price_increase_pct = None
                     /\ m.active_days = 0
                     /\ m.subscription_score
                          = RuleSum(SubSeq(SubscriptionRules(m), 5, 8))

\* C17: run_heuristic_scoring and detect_subscriptions never raise, whatever
\* the loaded ledger holds (single-transaction merchants, merchants whose
\* amounts are all 0, merchants with zero variance included), and in the
\* returned roster every score is the sum of the rules whose inputs are
\* present: an absent (None or NaN) value contributes nothing.
C17_DegenerateStatistics ==
    /\ result.op \in {"run_heuristic_scoring", "detect_subscriptions"}
          => ~result.raised
    /\ IsRun
          => \A i \in 1..Len(result.out.merchants) :
                LET m == result.out.merchants[i]
                IN  /\ m.subscription_score = RuleSum(SubscriptionRules(m))
                    /\ m.gray_score = RuleSum(GrayRules(m, AvgMonthlySpend(df)))

\* a run over a ledger with a single-transaction merchant whose amounts are all
\* 0 (amount_cv absent) beside a merchant of two equal amounts (zero variance)
C17_Witness ==
    /\ IsRun
    /\ \E i, j \in 1..Len(result.out.merchants) :
          LET m == result.out.merchants[i]
              n == result.out.merchants[j]
          IN  /\ m.num_txns = 1
              /\ m.amount_mean = Num(0, 1)
              /\ ~Present(m.amount_cv)
              /\ ~Present(m.mean_interval_days)
              /\ n.num_txns >= 2
              /\ n.amount_std = Num(0, 1)

-----------------------------------------------------------------------------
(* Claims on detect_subscriptions *)

IsDetect == result.op = "detect_subscriptions" /\ ~result.raised

\* the rosters run_heuristic_scoring can return on the ledger: one for each
\* order in which the sort may leave equal dates
Rosters ==
    {run_heuristic_scoring(df, merchant_features).out.merchants :
        merchant_features \in compute_merchant_features(df)}

\* the number of entries of a returned list that belong to a merchant
Entries(out, merchant) ==
    Cardinality({j \in 1..Len(out) : out[j].merchant = merchant})

\* C18: detect_subscriptions returns exactly one Subscription for each
\* merchant that run_heuristic_scoring labels likely_subscription or
\* possible_subscription, none for a merchant labelled not_subscription, and
\* nothing else.
C18_OnePerLabelledMerchant ==
    IsDetect
      => \E roster \in Rosters :
            /\ \A i \in 1..Len(roster) :
                  Entries(result.out, roster[i].merchant)
                    = IF Labelled(roster[i]) THEN 1 ELSE 0
            /\ \A j \in 1..Len(result.out) :
                  \E i \in 1..Len(roster) :
                      roster[i].merchant = result.out[j].merchant

\* detect_subscriptions has returned a possible subscription on a ledger that
\* also holds a merchant labelled not_subscription
C18_Witness ==
    /\ IsDetect
    /\ \E j \in 1..Len(result.out) : result.out[j].confidence = "medium"
    /\ \A roster \in Rosters :
          \E i \in 1..Len(roster) : roster[i].label = "not_subscription"

\* C19: the list detect_subscriptions returns is ordered by non-increasing
\* total_spent: of two adjacent entries the earlier one's total_spent is >=
\* the later one's.
C19_SortedByTotalSpent ==
    IsDetect
      => \A j \in 1..(Len(result.out) - 1) :
            result.out[j].total_spent >= result.out[j + 1].total_spent

\* two subscriptions of different totals are returned, and the one that spent
\* more comes later in the roster
C19_Witness ==
    /\ IsDetect
    /\ Len(result.out) = 2
    /\ result.out[1].total_spent > result.out[2].total_spent
    /\ \A roster \in Rosters :
          /\ Len(roster) = 2
          /\ roster[1].merchant = result.out[2].merchant
          /\ roster[2].merchant = result.out[1].merchant

\* the points compute_subscription_score gives the record for its mean interval
IntervalBonus(m) ==
    compute_subscription_score(m)
      - compute_subscription_score([m EXCEPT !.mean_interval_days = None])

\* the frequency of Subscription s follows the bands of the mean interval of
\* its merchant record m, and the interval bonus of the score
FrequencyAgrees(s, m) ==
    LET weekly == Between(Num(6, 1), m.mean_interval_days, Num(8, 1))
        monthly == Between(Num(27, 1), m.mean_interval_days, Num(33, 1))
    IN  /\ s.frequency \in {"weekly", "monthly", "recurring"}
        /\ s.frequency = "weekly" <=> weekly
        /\ s.frequency = "monthly" <=> monthly
        /\ s.frequency = "recurring" <=> ~weekly /\ ~monthly
        /\ s.frequency = "weekly" <=> SubscriptionRules(m)[3][1]
        /\ s.frequency = "monthly" <=> SubscriptionRules(m)[2][1]
        /\ s.frequency \in {"weekly", "monthly"} <=> IntervalBonus(m) = 3
        /\ s.frequency = "recurring" <=> IntervalBonus(m) = 0

\* C20: for every Subscription detect_subscriptions returns, frequency is
\* weekly iff the merchant's mean_interval_days is present and in [6, 8],
\* monthly iff it is present and in [27, 33], and recurring otherwise (outside
\* both bands, or absent); so it is weekly or monthly exactly when
\* compute_subscription_score awarded the +3 of that band.
C20_FrequencyFromInterval ==
    IsDetect
      => \E roster \in Rosters :
            \A j \in 1..Len(result.out) :
                \E i \in 1..Len(roster) :
                    /\ roster[i].merchant = result.out[j].merchant
                    /\ FrequencyAgrees(result.out[j], roster[i])

\* a weekly subscription is returned beside a recurring one whose merchant has
\* a single transaction, hence no mean interval
C20_Witness ==
    /\ IsDetect
    /\ \E j, k \in 1..Len(result.out) :
          /\ result.out[j].frequency = "weekly"
          /\ result.out[k].frequency = "recurring"
          /\ \A roster \in Rosters :
                \E i \in 1..Len(roster) :
                    /\ roster[i].merchant = result.out[k].merchant
                    /\ roster[i].num_txns = 1
                    /\ ~Present(roster[i].mean_interval_days)

\* the positions of the debit rows of a merchant in the ledger
DebitsOf(merchant) ==
    {k \in 1..Len(df.rows) :
        df.rows[k].type = "debit" /\ df.rows[k].merchant = merchant}

RECURSIVE AmountOver(_)
AmountOver(ks) ==
    IF ks = {} THEN 0
    ELSE LET k == CHOOSE x \in ks : TRUE
         IN  df.rows[k].amount + AmountOver(ks \ {k})

\* Subscription s agrees with the roster record m and the debit rows of its
\* merchant
SubscriptionAgrees(s, m) ==
    /\ s.confidence = "high" <=> m.label = "likely_subscription"
    /\ s.confidence = "medium" <=> m.label # "likely_subscription"
    /\ s.is_gray_charge
         <=> HasTag(m, "gray_recurring_fee") \/ HasTag(m, "possibly_gray_recurring_fee")
    /\ s.amount = m.amount_mean
    /\ s.total_spent = AmountOver(DebitsOf(m.merchant))
    /\ \E k \in DebitsOf(m.merchant) :
          /\ s.last_charge = Strftime(df.rows[k].date)
          /\ \A l \in DebitsOf(m.merchant) : df.rows[l].date <= df.rows[k].date

\* C21: every Subscription detect_subscriptions returns agrees with its
\* merchant's roster record and debit history: confidence is high iff the
\* label is likely_subscription and medium otherwise, is_gray_charge is true
\* iff the merchant carries one of the two gray tags, amount is amount_mean,
\* total_spent is the sum of the merchant's debit amounts and last_charge is
\* the latest debit date.
C21_SubscriptionAgrees ==
    IsDetect
      => \E roster \in Rosters :
            \A j \in 1..Len(result.out) :
                \E i \in 1..Len(roster) :
                    /\ roster[i].merchant = result.out[j].merchant
                    /\ SubscriptionAgrees(result.out[j], roster[i])

\* a high-confidence subscription is returned for a merchant that also has a
\* credit row in the ledger, which its total leaves out
C21_Witness ==
    /\ IsDetect
    /\ \E j \in 1..Len(result.out) :
          /\ result.out[j].confidence = "high"
          /\ result.out[j].total_spent > 0
          /\ \E k \in 1..Len(df.rows) :
                /\ df.rows[k].merchant = result.out[j].merchant
                /\ df.rows[k].type = "credit"

-----------------------------------------------------------------------------
(* _detect_anomalies on one category: enough amounts for an outlier *)

\* charges of one merchant, category and day: nothing, a small one, and a
\* small and a large one whose notes call them an anomaly
AnomalyRows ==
    { CsvRow(1, 10, QUICKFEE, MISC, 0, "debit", NO_NOTES),
      CsvRow(1, 10, QUICKFEE, MISC, 1, "debit", NO_NOTES),
      CsvRow(1, 10, QUICKFEE, MISC, 1, "debit", ANOMALY_NOTE),
      CsvRow(1, 10, QUICKFEE, MISC, 4, "debit", ANOMALY_NOTE) }

InitAnomaly ==
    /\ source \in UNION { [1..n -> AnomalyRows] : n \in 1..MaxAmounts }
    /\ df = load_data(source, TRUE)
    /\ loaded = df
    /\ result = NoCall
    /\ ScorersIdle
    /\ ThreadsIdle

SpecAnomaly == InitAnomaly /\ [][DetectAnomalies]_vars

IsAnomalies == result.op = "_detect_anomalies" /\ ~result.raised

\* the positions of the debit rows of a category in the ledger
DebitsIn(category) ==
    {k \in 1..Len(df.rows) :
        df.rows[k].type = "debit" /\ df.rows[k].category = category}

RECURSIVE SquaresOver(_)
SquaresOver(ks) ==
    IF ks = {} THEN 0
    ELSE LET k == CHOOSE x \in ks : TRUE
         IN  df.rows[k].amount * df.rows[k].amount + SquaresOver(ks \ {k})

\* n^2 times the population variance of the amounts at positions ks
ScaledVariance(ks) ==
    Cardinality(ks) * SquaresOver(ks) - AmountOver(ks) * AmountOver(ks)

\* the amount at position k exceeds mean + 2 * std of its category, std being
\* the population standard deviation
ExceedsPopulation(k) ==
    LET ks == DebitsIn(df.rows[k].category)
        dev == df.rows[k].amount * Cardinality(ks) - AmountOver(ks)
    IN  dev > 0 /\ dev * dev > 4 * ScaledVariance(ks)

\* the statistical flags of the result that describe the row at position k
StatisticalFlags(k) ==
    {i \in 1..Len(result.out) :
        /\ result.out[i].kind = "statistical"
        /\ result.out[i].merchant = df.rows[k].merchant
        /\ result.out[i].date = Strftime(df.rows[k].date)
        /\ result.out[i].category = df.rows[k].category
        /\ result.out[i].amount = df.rows[k].amount}

\* C22: _detect_anomalies statistically flags a debit transaction iff its
\* amount exceeds mean + 2 * std of the debit amounts of its category, std
\* being the population standard deviation (divisor n), and flags nothing in
\* a category whose amounts have zero variance, a category of one
\* transaction included.
C22_PopulationOutliers ==
    IsAnomalies
      => \A k \in 1..Len(df.rows) :
            df.rows[k].type = "debit"
              => /\ StatisticalFlags(k) # {} <=> ExceedsPopulation(k)
                 /\ ScaledVariance(DebitsIn(df.rows[k].category)) = 0
                       => StatisticalFlags(k) = {}

\* the notes of the row at position k contain "anomaly" in any case
NotesSayAnomaly(k) == Contains(ANOMALY, Lower(df.rows[k].notes))

\* a statistical flag of the result carries the merchant and date of row k
StatisticallyFlagged(k) ==
    \E i \in 1..Len(result.out) :
        /\ result.out[i].kind = "statistical"
        /\ result.out[i].merchant = df.rows[k].merchant
        /\ result.out[i].date = Strftime(df.rows[k].date)

\* the debit rows flagged by their notes that agree with row k in every field
\* an entry reports
SameNotedRows(k) ==
    {l \in 1..Len(df.rows) :
        /\ df.rows[l].type = "debit"
        /\ NotesSayAnomaly(l)
        /\ df.rows[l].merchant = df.rows[k].merchant
        /\ df.rows[l].date = df.rows[k].date
        /\ df.rows[l].category = df.rows[k].category
        /\ df.rows[l].amount = df.rows[k].amount
        /\ df.rows[l].notes = df.rows[k].notes}

\* the entries of the result added for the notes of a row like row k
NoteEntries(k) ==
    {i \in 1..Len(result.out) :
        /\ result.out[i].kind = "note"
        /\ result.out[i].merchant = df.rows[k].merchant
        /\ result.out[i].date = Strftime(df.rows[k].date)
        /\ result.out[i].category = df.rows[k].category
        /\ result.out[i].amount = df.rows[k].amount
        /\ result.out[i].note = df.rows[k].notes}

\* C23: every debit transaction whose notes contain "anomaly" appears in the
\* result of _detect_anomalies, unless a statistical flag exists for its
\* merchant and date, in which case it is not added again; earlier entries
\* added for notes do not count, so two such transactions of one merchant
\* and date are both reported.
C23_NotesFlagged ==
    IsAnomalies
      => \A k \in 1..Len(df.rows) :
            df.rows[k].type = "debit" /\ NotesSayAnomaly(k)
              => Cardinality(NoteEntries(k))
                   = IF StatisticallyFlagged(k) THEN 0
                     ELSE Cardinality(SameNotedRows(k))

-----------------------------------------------------------------------------
(* Claims on the feature records *)

IsFeatures == result.op = "compute_merchant_features" /\ ~result.raised

\* the most frequent value of s that appears first in s
FirstMostFrequent(s) ==
    LET most(i) == \A j \in 1..Len(s) : Count(s, s[j]) <= Count(s, s[i])
        first == CHOOSE i \in 1..Len(s) :
                    most(i) /\ \A j \in 1..(i - 1) : ~most(j)
    IN  s[first]

\* the date-sorted sequences of the merchant's debit rows from which the
\* feature record f can have been computed, its category aside
SortedHistories(f) ==
    {m_df \in SortValues(OfMerchant(ExpenseRows(df), f.merchant)) :
        [MerchantFeatureDict(f.merchant, m_df) EXCEPT !.category = f.category] = f}

\* C24: the category of a merchant's feature record is the most frequent
\* category among its debit transactions, and when several categories tie it
\* is the one that appears first in the merchant's date-sorted transaction
\* sequence.
C24_CategoryMode ==
    IsFeatures
      => \A i \in 1..Len(result.out) :
            \E m_df \in SortedHistories(result.out[i]) :
                result.out[i].category = FirstMostFrequent(Column(m_df, "category"))

\* C25: the roster of every ScoringOutput holds exactly one record for each
\* distinct merchant string with at least one debit transaction in the
\* ledger, none for a merchant with credit transactions only, and each
\* record's num_txns is the number of its merchant's debit transactions.
C25_OneRecordPerDebitMerchant ==
    IsRun
      => /\ \A k \in 1..Len(df.rows) :
               Entries(result.out.merchants, df.rows[k].merchant)
                 = IF DebitsOf(df.rows[k].merchant) # {} THEN 1 ELSE 0
         /\ \A i \in 1..Len(result.out.merchants) :
               LET m == result.out.merchants[i]
               IN  /\ DebitsOf(m.merchant) # {}
                   /\ m.num_txns = Cardinality(DebitsOf(m.merchant))

\* a run over a ledger with a merchant of two debits and a merchant that has
\* a credit row only
C25_Witness ==
    /\ IsRun
    /\ \E i \in 1..Len(result.out.merchants) : result.out.merchants[i].num_txns = 2
    /\ \E k \in 1..Len(df.rows) :
          /\ df.rows[k].type = "credit"
          /\ DebitsOf(df.rows[k].merchant) = {}

\* the dates of the debit rows at positions ks, in ascending order
DatesInOrder(ks) ==
    LET dates == {df.rows[k].date : k \in ks}
    IN  CHOOSE t \in [1..Cardinality(ks) -> dates] :
            /\ \A i \in 1..(Cardinality(ks) - 1) : t[i] <= t[i + 1]
            /\ \A d \in dates :
                  Cardinality({i \in 1..Cardinality(ks) : t[i] = d})
                    = Cardinality({k \in ks : df.rows[k].date = d})

\* the day-gaps between date-consecutive transactions
Gaps(ks) ==
    LET t == DatesInOrder(ks)
    IN  [i \in 1..(Cardinality(ks) - 1) |-> t[i + 1] - t[i]]

\* C26: for a merchant with n >= 2 debit transactions, mean_interval_days is
\* the arithmetic mean of the n - 1 day-gaps between date-consecutive
\* transactions, std_interval_days is the population standard deviation of
\* those gaps and exactly 0 when n = 2, and active_days is the whole days
\* between the earliest and the latest transaction, the sum of the gaps.
C26_IntervalStatistics ==
    IsRun
      => \A i \in 1..Len(result.out.merchants) :
            LET m == result.out.merchants[i]
                ks == DebitsOf(m.merchant)
                t == DatesInOrder(ks)
                gaps == Gaps(ks)
            IN  Cardinality(ks) >= 2
                  => /\ m.mean_interval_days = Num(SumSeq(gaps), Len(gaps))
                     /\ m.std_interval_days = PopStd(gaps)
                     /\ Cardinality(ks) = 2 => m.std_interval_days = Num(0, 1)
                     /\ m.active_days = t[Len(t)] - t[1]
                     /\ m.active_days = SumSeq(gaps)

\* a merchant with three debit transactions whose two gaps differ
C26_Witness ==
    /\ IsRun
    /\ \E i \in 1..Len(result.out.merchants) :
          LET m == result.out.merchants[i]
          IN  /\ m.num_txns = 3
              /\ m.std_interval_days # Num(0, 1)
              /\ Present(m.std_interval_days)
              /\ m.active_days > 0

\* C30: normalize_merchant is idempotent: normalizing a name it returned gives
\* that name again, for names that begin or end with a hyphen or hold a
\* hyphen next to whitespace as for any other.
C30_NormalizeIdempotent ==
    ret.op = "normalize_merchant" => normalize_merchant(ret.out) = ret.out

\* C28: a merchant with exactly one debit transaction has a subscription
\* score of at most 4, so it is never labelled likely_subscription; it can
\* reach possible_subscription through the amount-consistency, amount-band
\* and category bonuses alone.
C28_SingleTransactionScore ==
    IsRun
      => \A i \in 1..Len(result.out.merchants) :
            LET m == result.out.merchants[i]
            IN  Cardinality(DebitsOf(m.merchant)) = 1
                  => /\ m.subscription_score <= 4
                     /\ m.label # "likely_subscription"

\* a merchant with one debit transaction scores 4 and is a possible
\* subscription
C28_Witness ==
    /\ IsRun
    /\ \E i \in 1..Len(result.out.merchants) :
          LET m == result.out.merchants[i]
          IN  /\ Cardinality(DebitsOf(m.merchant)) = 1
              /\ m.subscription_score = 4
              /\ m.label = "possible_subscription"
              /\ m.subscription_score = RuleSum(SubSeq(SubscriptionRules(m), 5, 8))

-----------------------------------------------------------------------------
(* Claims on a failed load *)

\* the empty result of each method that returns one
EmptyResult(op) ==
    IF op = "run_heuristic_scoring" THEN EmptyScoringOutput ELSE <<>>

\* C29: when load_data fails no exception escapes and the ledger becomes the
\* empty ledger, a ledger loaded before is not kept; on it every later call
\* of run_heuristic_scoring, detect_subscriptions, get_transactions and
\* _detect_anomalies returns its empty result.
C29_FailedLoad ==
    /\ result.op = "load_data"
          => /\ ~result.raised
             /\ result.out # <<>> => df = EmptyDataFrame
    /\ df = EmptyDataFrame
          /\ result.op \in {"run_heuristic_scoring", "detect_subscriptions",
                             "get_transactions", "_detect_anomalies"}
          => ~result.raised /\ result.out = EmptyResult(result.op)

\* get_transactions has returned on the ledger a failed load left, the file
\* holding rows
C29_Witness ==
    /\ df = EmptyDataFrame
    /\ source # <<>>
    /\ result.op = "get_transactions"
    /\ result.out = <<>>

-----------------------------------------------------------------------------
(* detect_subscriptions while another thread refreshes the ledger *)

\* the constructor has loaded a file of Netflix rows
InitDetect ==
    /\ source \in UNION { [1..n -> {r \in CsvRows : r.merchant = NETFLIX}] :
                             n \in 1..MaxConcLen }
    /\ df = load_data(source, TRUE)
    /\ loaded = df
    /\ result = NoCall
    /\ ScorersIdle
    /\ ThreadsIdle

\* load_data() run from its first statement to its last by another thread,
\* on the file as it is by then
RefreshLedger ==
    /\ version < MaxRefreshes
    /\ \E n \in 1..MaxConcLen, ok \in BOOLEAN :
          \E file \in [1..n -> {r \in CsvRows : r.merchant = NETFLIX}] :
              /\ source' = file
              /\ df' = load_data(file, ok)
    /\ loaded' = df'
    /\ version' = version + 1
    /\ UNCHANGED <<result, row, avg_monthly_spend, ret, load_pc, run_pc,
                   run_merchant_df, reads>>

\* lines 529-532: the emptiness check and the call of run_heuristic_scoring,
\* whose roster detect_subscriptions keeps
ScoreForSubscriptions ==
    /\ run_pc \in {"idle", "done"}
    /\ reads' = <<[line |-> 529, version |-> version, prepared |-> TRUE]>>
    /\ IF Empty(df)
       THEN /\ result' = Returned("detect_subscriptions", <<>>)
            /\ run_merchant_df' = <<>>
            /\ run_pc' = "done"
       ELSE /\ \E merchant_features \in compute_merchant_features(df) :
                   run_merchant_df'
                     = run_heuristic_scoring(df, merchant_features).out.merchants
            /\ run_pc' = "totals"
            /\ UNCHANGED result
    /\ UNCHANGED <<source, df, loaded, row, avg_monthly_spend, ret, load_pc, version>>

\* lines 535-574: self.df is read again for the totals; KeyError when it has
\* no type column, ValueError from the strftime of NaT when a merchant of the
\* roster has no debit row in it
SubscriptionTotals ==
    /\ run_pc = "totals"
    /\ ReadsDf(535)
    /\ LET expense_df == ExpenseRows(df)
           ms == SelectSeq(run_merchant_df, IsSubscriptionLabel)
       IN  result' =
             IF "type" \notin df.cols THEN Raised("detect_subscriptions")
             ELSE IF \E i \in 1..Len(ms) : OfMerchant(expense_df, ms[i].merchant) = <<>>
             THEN Raised("detect_subscriptions")
             ELSE Returned("detect_subscriptions",
                           SortedDescBy([i \in 1..Len(ms) |->
                                            SubscriptionOf(ms[i], expense_df)],
                                        "total_spent"))
    /\ run_pc' = "done"
    /\ UNCHANGED <<source, df, loaded, row, avg_monthly_spend, ret, load_pc,
                   run_merchant_df, version>>

NextDetect ==
    \/ RefreshLedger
    \/ ScoreForSubscriptions
    \/ SubscriptionTotals

SpecDetect == InitDetect /\ [][NextDetect]_vars

\* C27: when load_data runs concurrently with detect_subscriptions, every
\* returned Subscription is computed from one ledger version: the ledger read
\* for total_spent and last_charge is the one from which
\* run_heuristic_scoring derived the merchant's label and amount_mean, so the
\* total is amount_mean times num_txns of the merchant's roster record.
C27_SingleLedgerVersion ==
    run_pc = "done" /\ IsDetect
      => /\ \A i, j \in 1..Len(reads) : reads[i].version = reads[j].version
         /\ \A j \in 1..Len(result.out) :
               \E i \in 1..Len(run_merchant_df) :
                   LET m == run_merchant_df[i]
                   IN  /\ m.merchant = result.out[j].merchant
                       /\ m.amount_mean = Num(result.out[j].total_spent, m.num_txns)
====
